---------------------------- MODULE Spec2Model ----------------------------
(***************************************************************************)
(* Model of core/agent_core/llm/call_llm.py: the stream aggregator         *)
(* (LLMResponseAggregator) and the call orchestrator with its unified      *)
(* retry loop (call_litellm_acompletion).                                  *)
(*                                                                         *)
(* Text is a sequence of tokens, so that a marker such as "<tool_call>"    *)
(* can arrive split over several fragments.  A Python value that may be    *)
(* None is written None or Some(v).                                        *)
(***************************************************************************)
EXTENDS Integers, Sequences, FiniteSets, TLC

None == [none |-> TRUE]
Some(v) == [some |-> v]
Val(o) == o.some

(***************************************************************************)
(* Bounds of the model.                                                    *)
(***************************************************************************)
MaxRetries == 1
MaxChunks == 2
MaxAggChunks == 3
MaxToolIndex == 2
MaxSinkRetries == 1
MaxPairRetries == 1
MaxUploadFiles == 2
MaxSockets == 3
MaxStatRetries == 1

(***************************************************************************)
(* Program constants.                                                      *)
(***************************************************************************)
DEFAULT_MAX_RETRIES == 2
DEFAULT_WAIT_SECONDS == 3

\* The in-band markers of process_chunk, as token sequences.
TOOL_CALL_MARKER == <<"<tool_", "call>">>
TOOL_CODE_MARKER == <<"<tool_", "code>">>

\* needle in haystack, Python's `in` on strings.
Contains(haystack, needle) ==
    \E i \in 1..(Len(haystack) - Len(needle) + 1) :
        SubSeq(haystack, i, i + Len(needle) - 1) = needle

IsSpace(tok) == tok = " "

\* str.strip(): leading and trailing whitespace removed.
RECURSIVE LStrip(_)
LStrip(s) ==
    IF s /= <<>> /\ IsSpace(Head(s)) THEN LStrip(Tail(s)) ELSE s

RECURSIVE RStrip(_)
RStrip(s) ==
    IF s /= <<>> /\ IsSpace(s[Len(s)]) THEN RStrip(SubSeq(s, 1, Len(s) - 1)) ELSE s

Strip(s) == RStrip(LStrip(s))

(***************************************************************************)
(* Exception classes.                                                      *)
(***************************************************************************)
FunctionCallErrorException == "FunctionCallErrorException"
CancelledError == "CancelledError"

NetworkErrors ==
    {"RateLimitError", "Timeout", "APIConnectionError",
     "ServiceUnavailableError", "InternalServerError", "APIError"}

UnrecoverableErrors ==
    {"AuthenticationError", "BadRequestError", "ContextWindowExceededError"}

\* An exception object: its class, str(e), and the attempt it was raised in.
Exc(type, msg, at) == [type |-> type, msg |-> msg, attempt |-> at]

MARKER_MSG == "Detected '<tool_call>' or '<tool_code>' in stream, forcing retry."
EMPTY_MSG == "Received completely empty response from LLM, forcing retry."
NO_MODEL_MSG == "The 'model' key is missing in the provided llm_config."

(***************************************************************************)
(* Fragments of a streamed response.                                       *)
(***************************************************************************)
\* A usage object; `convertible` is FALSE when neither .dict() nor dict()
\* works on it (the except branch of the usage capture).
Usage(p, c, ok) == [prompt_tokens |-> p, completion_tokens |-> c, convertible |-> ok]

\* usage.dict() / dict(usage)
UsageDict(u) == [prompt_tokens |-> u.prompt_tokens, completion_tokens |-> u.completion_tokens]

\* One tool-call delta of a fragment.
TcDelta(has_index, index, id, name, arguments) ==
    [has_index |-> has_index, index |-> index, id |-> id,
     name |-> name, arguments |-> arguments]

BaseChunk ==
    [usage |-> None, has_choices |-> TRUE, model |-> None,
     reasoning_content |-> None, content |-> None, tool_calls |-> <<>>]

UsageChunk(u) == [BaseChunk EXCEPT !.usage = Some(u), !.has_choices = FALSE]
ContentChunk(text) == [BaseChunk EXCEPT !.content = Some(text)]
ReasoningChunk(text) == [BaseChunk EXCEPT !.reasoning_content = Some(text)]
ToolChunk(deltas) == [BaseChunk EXCEPT !.tool_calls = deltas]

(***************************************************************************)
(* LLMResponseAggregator.                                                  *)
(***************************************************************************)
\* __init__
\* LLMResponseAggregator(...), a faulty variant that is built once before the
\* retry loop and so starts an attempt with content of an earlier one.
NewAggregatorCarriedOver(sid) ==
    [stream_id |-> sid,
     full_content |-> <<"x">>,
     full_reasoning_content |-> <<>>,
     current_tool_call_chunks |-> <<>>,
     raw_chunks |-> <<>>,
     model_id_used |-> None,
     actual_usage |-> None]

NewAggregator(sid) ==
    [stream_id |-> sid,
     full_content |-> <<>>,
     full_reasoning_content |-> <<>>,
     current_tool_call_chunks |-> <<>>,
     raw_chunks |-> <<>>,
     model_id_used |-> None,
     actual_usage |-> None]

\* The usage capture at the head of process_chunk, a faulty variant that keeps the
\* first snapshot instead of the last.
CaptureUsageFirstWins(agg, chunk) ==
    IF chunk.usage /= None /\ Val(chunk.usage).convertible /\ agg.actual_usage = None
    THEN [agg EXCEPT !.actual_usage = Some(UsageDict(Val(chunk.usage)))]
    ELSE agg

\* The usage capture at the head of process_chunk.
CaptureUsage(agg, chunk) ==
    IF chunk.usage /= None /\ Val(chunk.usage).convertible
    THEN [agg EXCEPT !.actual_usage = Some(UsageDict(Val(chunk.usage)))]
    ELSE agg

CaptureModel(agg, chunk) ==
    IF agg.model_id_used = None /\ chunk.model /= None
    THEN [agg EXCEPT !.model_id_used = chunk.model]
    ELSE agg

AppendReasoning(agg, chunk) ==
    IF chunk.reasoning_content /= None
    THEN [agg EXCEPT !.full_reasoning_content = @ \o Val(chunk.reasoning_content)]
    ELSE agg

AppendContent(agg, chunk) ==
    IF chunk.content /= None
    THEN [agg EXCEPT !.full_content = @ \o Val(chunk.content)]
    ELSE agg

\* The marker test after a content append, a faulty variant that looks at the new
\* delta only.
MarkerDetectedInDelta(full_content, delta_content) ==
    Contains(delta_content, TOOL_CALL_MARKER) \/ Contains(delta_content, TOOL_CODE_MARKER)

\* The marker test after a content append.
MarkerDetected(full_content, delta_content) ==
    Contains(full_content, TOOL_CALL_MARKER) \/ Contains(full_content, TOOL_CODE_MARKER)

\* index = tc_chunk.index if hasattr(tc_chunk, "index") else 0
TcIndex(tc) == IF tc.has_index THEN tc.index ELSE 0

\* Position of the record with key `index` in the insertion-ordered dict, 0 if absent.
PosOf(chunks, index) ==
    IF \E i \in 1..Len(chunks) : chunks[i].index = index
    THEN CHOOSE i \in 1..Len(chunks) : chunks[i].index = index
    ELSE 0

EmptyRecord(index) ==
    [index |-> index, id |-> None, type |-> "function",
     function |-> [name |-> <<>>, arguments |-> <<>>]]

\* Creation of a record on first sight of an index, a faulty variant that puts the
\* new record in front.
InsertRecordFirst(chunks, index) ==
    IF PosOf(chunks, index) = 0 THEN <<EmptyRecord(index)>> \o chunks ELSE chunks

\* Creation of a record on first sight of an index: a dict keeps insertion order.
InsertRecord(chunks, index) ==
    IF PosOf(chunks, index) = 0 THEN Append(chunks, EmptyRecord(index)) ELSE chunks

\* One tc_chunk of delta.tool_calls applied to current_tool_call_chunks, a faulty
\* variant that puts a new name or arguments fragment in front of the text so far.
ApplyTcDeltaPrepend(chunks, tc) ==
    LET index == TcIndex(tc)
        c1 == InsertRecord(chunks, index)
        p == PosOf(c1, index)
        c2 == IF tc.id /= None THEN [c1 EXCEPT ![p].id = tc.id] ELSE c1
        c3 == IF tc.name /= None /\ Val(tc.name) /= <<>>
              THEN [c2 EXCEPT ![p].function.name = Val(tc.name) \o @]
              ELSE c2
    IN  IF tc.arguments /= None /\ Val(tc.arguments) /= <<>>
        THEN [c3 EXCEPT ![p].function.arguments = Val(tc.arguments) \o @]
        ELSE c3

\* One tc_chunk of delta.tool_calls applied to current_tool_call_chunks.
ApplyTcDelta(chunks, tc) ==
    LET index == TcIndex(tc)
        c1 == InsertRecord(chunks, index)
        p == PosOf(c1, index)
        c2 == IF tc.id /= None THEN [c1 EXCEPT ![p].id = tc.id] ELSE c1
        c3 == IF tc.name /= None /\ Val(tc.name) /= <<>>
              THEN [c2 EXCEPT ![p].function.name = @ \o Val(tc.name)]
              ELSE c2
    IN  IF tc.arguments /= None /\ Val(tc.arguments) /= <<>>
        THEN [c3 EXCEPT ![p].function.arguments = @ \o Val(tc.arguments)]
        ELSE c3

RECURSIVE ApplyTcDeltas(_, _)
ApplyTcDeltas(chunks, deltas) ==
    IF deltas = <<>> THEN chunks
    ELSE ApplyTcDeltas(ApplyTcDelta(chunks, Head(deltas)), Tail(deltas))

\* process_chunk: the aggregator after the fragment, and whether it raised
\* FunctionCallErrorException.
ProcessChunk(agg, chunk) ==
    LET a0 == [agg EXCEPT !.raw_chunks = Append(@, chunk)]
        a1 == CaptureUsage(a0, chunk)
        a2 == CaptureModel(a1, chunk)
        a3 == AppendReasoning(a2, chunk)
        a4 == AppendContent(a3, chunk)
    IN  IF ~chunk.has_choices
        THEN [agg |-> a1, raised |-> FALSE]
        ELSE IF chunk.content /= None /\ MarkerDetected(a4.full_content, Val(chunk.content))
        THEN [agg |-> a4, raised |-> TRUE]
        ELSE [agg |-> [a4 EXCEPT !.current_tool_call_chunks = ApplyTcDeltas(@, chunk.tool_calls)],
              raised |-> FALSE]

\* The llm_chunk notification of process_chunk.
LlmChunk(sid, chunk_type, content) ==
    [kind |-> "llm_chunk", stream_id |-> sid, chunk_type |-> chunk_type, content |-> content]

\* The notifications of one tc_chunk: its name fragment, then its arguments.
TcNotifications(sid, tc) ==
    (IF tc.name /= None /\ Val(tc.name) /= <<>>
     THEN <<LlmChunk(sid, "tool_name", Val(tc.name))>> ELSE <<>>)
    \o (IF tc.arguments /= None /\ Val(tc.arguments) /= <<>>
        THEN <<LlmChunk(sid, "tool_args", Val(tc.arguments))>> ELSE <<>>)

RECURSIVE TcsNotifications(_, _)
TcsNotifications(sid, deltas) ==
    IF deltas = <<>> THEN <<>>
    ELSE TcNotifications(sid, Head(deltas)) \o TcsNotifications(sid, Tail(deltas))

\* What process_chunk emits for a fragment, a faulty variant that emits the
\* content notification before the marker test.
ChunkNotificationsBeforeTest(agg, chunk) ==
    LET sid == agg.stream_id
        raised == ProcessChunk(agg, chunk).raised
    IN  IF ~chunk.has_choices THEN <<>>
        ELSE (IF chunk.reasoning_content /= None
              THEN <<LlmChunk(sid, "reasoning_content", Val(chunk.reasoning_content))>>
              ELSE <<>>)
             \o (IF chunk.content /= None
                 THEN <<LlmChunk(sid, "content", Val(chunk.content))>>
                 ELSE <<>>)
             \o (IF raised THEN <<>> ELSE TcsNotifications(sid, chunk.tool_calls))

\* What process_chunk emits for a fragment when the aggregator has an event
\* sink (`if self.events:`): nothing for a fragment without choices, and
\* nothing from the marker test on, when it raises.
ChunkNotifications(agg, chunk) ==
    LET sid == agg.stream_id
        raised == ProcessChunk(agg, chunk).raised
    IN  IF ~chunk.has_choices THEN <<>>
        ELSE (IF chunk.reasoning_content /= None
              THEN <<LlmChunk(sid, "reasoning_content", Val(chunk.reasoning_content))>>
              ELSE <<>>)
             \o (IF chunk.content /= None /\ ~raised
                 THEN <<LlmChunk(sid, "content", Val(chunk.content))>>
                 ELSE <<>>)
             \o (IF raised THEN <<>> ELSE TcsNotifications(sid, chunk.tool_calls))

\* json_repair.repair_json on an arguments text: "{" opens an object, "}"
\* closes one; text left open is closed, well-formed text is returned as is.
RECURSIVE Depth(_)
Depth(args) ==
    IF args = <<>> THEN 0
    ELSE Depth(SubSeq(args, 1, Len(args) - 1))
         + (IF args[Len(args)] = "{" THEN 1 ELSE IF args[Len(args)] = "}" THEN -1 ELSE 0)

RepairJson(args) == IF Depth(args) > 0 THEN Append(args, "}") ELSE args

\* list(self.current_tool_call_chunks.values()), a faulty variant that sorts by index.
RECURSIVE SortedByIndex(_)
SortedByIndex(chunks) ==
    IF chunks = <<>> THEN <<>>
    ELSE LET m == CHOOSE i \in 1..Len(chunks) :
                      \A j \in 1..Len(chunks) : chunks[i].index <= chunks[j].index
             rest == [k \in 1..(Len(chunks) - 1) |-> IF k < m THEN chunks[k] ELSE chunks[k + 1]]
         IN  <<chunks[m]>> \o SortedByIndex(rest)

\* list(self.current_tool_call_chunks.values())
ToolCallsList(chunks) == chunks

\* get_aggregated_response
GetAggregatedResponse(agg) ==
    [reasoning |-> agg.full_reasoning_content,
     content |-> agg.full_content,
     tool_calls |->
        [i \in 1..Len(ToolCallsList(agg.current_tool_call_chunks)) |->
            [ToolCallsList(agg.current_tool_call_chunks)[i]
                EXCEPT !.function.arguments = RepairJson(@)]],
     model_id_used |-> agg.model_id_used,
     actual_usage |-> agg.actual_usage]


(***************************************************************************)
(* Messages and the inputs of a call.                                      *)
(***************************************************************************)
\* A message content: a str, or structured parts (a list).
Str(text) == [is_str |-> TRUE, text |-> text]
Parts == [is_str |-> FALSE, text |-> <<"part">>]

Msg(role, content) == [role |-> role, content |-> content]

MessageLists ==
    { <<>>,
      <<Msg("user", Str(<<"hi">>))>>,
      <<Msg("system", Str(<<"s0">>)), Msg("user", Str(<<"hi">>))>>,
      <<Msg("user", Parts)>> }

\* llm_config: a key that is absent is None.
LlmConfigs ==
    [model : {None, Some("m")},
     max_retries : {None} \cup {Some(n) : n \in -1..MaxRetries},
     wait_seconds_on_retry : {None}]
    \cup [model : {Some("m")},
          max_retries : {Some(1)},
          wait_seconds_on_retry : {Some(2)}]

CallerStreamId == <<"caller">>
Uuid(n) == <<"uuid4", n>>

StreamIdArgs == {None, Some(CallerStreamId)}
SystemPrompts == {None, Some(<<"sp">>)}

\* What the transport may raise when it is opened, and while the stream is
\* read; KeyError stands for an exception that no except clause names.
TransportErrors == NetworkErrors \cup UnrecoverableErrors \cup {"KeyError"}
StreamErrors == {"APIConnectionError", "Timeout", "ContextWindowExceededError", "KeyError"}
TRANSPORT_MSG == "transport error"

\* The fragments a stream of a call is made of.
U1 == Usage(5, 7, TRUE)
U2 == Usage(6, 9, TRUE)
UBad == Usage(0, 0, FALSE)

CallFragments ==
    { ContentChunk(<<"x">>), ContentChunk(<<" ">>),
      ContentChunk(<<"<tool_">>), ContentChunk(<<"call>">>),
      ContentChunk(<<"<tool_", "code>">>),
      ReasoningChunk(<<"r">>),
      UsageChunk(U1),
      ToolChunk(<<TcDelta(TRUE, 0, Some("a"), Some(<<"f">>), Some(<<"{", "}">>))>>) }

\* run_context['runtime']['token_usage_stats'] before the call.
InitialStats ==
    [total_prompt_tokens |-> 10,
     total_completion_tokens |-> 20,
     total_successful_calls |-> 1,
     total_failed_calls |-> 1,
     max_context_window |-> 10]

\* The provider behind litellm.acompletion: what it may raise when the stream
\* is opened and while it is read, and the fragments a stream is made of.
FullProvider ==
    [open_errors |-> TransportErrors,
     stream_errors |-> StreamErrors,
     fragments |-> CallFragments]

VARIABLES
    messages,               \* the caller's message list (the caller's objects)
    llm_config,
    stream_id,
    system_prompt_content,
    events,                 \* the event sink argument, None if absent
    agent_id_for_event,
    run_id_for_event,
    run_context,            \* None, or Some of the statistics it holds
    provider,
    log,                    \* notifications, transport opens and sleeps, in order
    pc,                     \* where the call is: start, attempt, open, stream, backoff, done
    attempt,
    last_exception,
    final_messages,
    current_stream_id,
    response_aggregator,
    aggregated_response,
    outcome,                \* how the call ended: a returned dict or a raised exception
    dispatched,             \* the message list of every transport open, in order
    stream_ids,             \* the stream identifier of every attempt, in order
    waits,                  \* the seconds of every backoff sleep, in order
    attempt_failure,        \* the exception that ended the latest failed attempt
    next_uuid               \* number of uuid4() values drawn

VARIABLES
    est_args,               \* the arguments of a call of estimate_prompt_tokens
    est_result,             \* what that call returned or raised
    params_args,            \* what the parameters of an attempt are built from
    params_for_litellm,     \* the parameters built, or the exception raised
    caller_messages,        \* the message list that concurrent calls were given
    calls,                  \* the state of each of the concurrent calls
    assets,                 \* the files of the project's assets directory
    uploads,                \* the state of each upload request
    pending_websocket_sessions, \* the session ids issued and not yet used
    sockets,                \* the state of each WebSocket connection attempt
    token_usage_stats,      \* the statistics object that concurrent calls share
    stat_calls              \* the state of each call that shares it

\* The variables of a call of call_litellm_acompletion.
call_vars ==
    <<messages, llm_config, stream_id, system_prompt_content, pc, attempt,
      last_exception, final_messages, current_stream_id, response_aggregator,
      aggregated_response, outcome, dispatched, stream_ids, waits,
      attempt_failure, next_uuid, events, agent_id_for_event, run_id_for_event,
      run_context, provider, log>>

\* The variables of estimate_prompt_tokens.
est_vars == <<est_args, est_result>>

\* The variables of the preparation of the transport parameters.
params_vars == <<params_args, params_for_litellm>>

\* The variables of concurrent calls on one message list.
pair_vars == <<caller_messages, calls>>

\* The variables of the upload of project files.
upload_vars == <<assets, uploads>>

\* The variables of the WebSocket endpoint.
ws_vars == <<pending_websocket_sessions, sockets>>

\* The variables of concurrent calls on one statistics object.
stats_vars == <<token_usage_stats, stat_calls>>

\* The variables of the components that a call of call_litellm_acompletion
\* does not touch.
other_vars == <<est_vars, params_vars, pair_vars, upload_vars, ws_vars, stats_vars>>

vars == <<call_vars, other_vars>>

\* What no step of a call changes: its arguments, and the other components.
args ==
    <<llm_config, stream_id, system_prompt_content, events, agent_id_for_event,
      run_id_for_event, provider, other_vars>>

\* No call of estimate_prompt_tokens is under way.
EstimatorIdle == est_args = None /\ est_result = None

\* No transport parameters are being prepared.
ParamsIdle == params_args = None /\ params_for_litellm = None

\* No concurrent calls are under way.
PairIdle == caller_messages = <<>> /\ calls = <<>>

\* No upload request is under way.
UploadIdle == assets = {} /\ uploads = <<>>

\* No WebSocket connection is attempted.
WsIdle == pending_websocket_sessions = {} /\ sockets = <<>>

\* No calls share a statistics object.
StatsIdle == token_usage_stats = InitialStats /\ stat_calls = <<>>

\* The components of the server are at rest.
ServerIdle == UploadIdle /\ WsIdle

\* The other components are at rest.
OthersIdle == EstimatorIdle /\ ParamsIdle /\ PairIdle /\ StatsIdle /\ ServerIdle

\* app_level_max_retries = llm_config.get("max_retries", 2)
app_level_max_retries ==
    IF llm_config.max_retries = None THEN DEFAULT_MAX_RETRIES ELSE Val(llm_config.max_retries)

\* llm_config.get("wait_seconds_on_retry", 3)
wait_seconds_on_retry ==
    IF llm_config.wait_seconds_on_retry = None
    THEN DEFAULT_WAIT_SECONDS
    ELSE Val(llm_config.wait_seconds_on_retry)

Returned(value) == [kind |-> "return", value |-> value]
Raised(type) == [kind |-> "raise", type |-> type]
Pending == [kind |-> "pending"]

\* The error dict of the three return statements that build one.
ErrorDict(format, e) ==
    [error |-> [format |-> format, type |-> e.type, msg |-> e.msg, of_attempt |-> e.attempt],
     error_type |-> e.type,
     actual_usage |-> None,
     content |-> None,
     tool_calls |-> <<>>,
     reasoning |-> None,
     model_id_used |-> None]

Init ==
    /\ messages \in MessageLists
    /\ llm_config \in LlmConfigs
    /\ stream_id \in StreamIdArgs
    /\ system_prompt_content \in SystemPrompts
    /\ pc = "start"
    /\ attempt = 0
    /\ last_exception = None
    /\ final_messages = <<>>
    /\ current_stream_id = None
    /\ response_aggregator = None
    /\ aggregated_response = None
    /\ outcome = Pending
    /\ dispatched = <<>>
    /\ stream_ids = <<>>
    /\ waits = <<>>
    /\ attempt_failure = None
    /\ next_uuid = 0
    /\ events = None
    /\ agent_id_for_event = None
    /\ run_id_for_event = None
    /\ run_context = None
    /\ provider = FullProvider
    /\ log = <<>>
    /\ OthersIdle


(***************************************************************************)
(* call_litellm_acompletion: the except clauses.                           *)
(***************************************************************************)
\* `if events and agent_id_for_event and run_id_for_event:`
HasSinkIds == events /= None /\ agent_id_for_event /= None /\ run_id_for_event /= None

\* The notifications of the orchestrator, as the sink receives them.
StreamStarted(sid) == [kind |-> "llm_stream_started", stream_id |-> sid]
RequestParams(sid) == [kind |-> "llm_request_params", stream_id |-> sid]
StreamEnded(sid) == [kind |-> "llm_stream_ended", stream_id |-> sid]
StreamFailed(sid, reason) == [kind |-> "llm_stream_failed", stream_id |-> sid, reason |-> reason]
TokenUsageUpdate(stats) == [kind |-> "token_usage_update", data |-> stats]

\* The calls out of the orchestrator that are not notifications.
Acompletion(k) == [kind |-> "acompletion", attempt |-> k]
Sleep(seconds) == [kind |-> "sleep", seconds |-> seconds]

\* The statistics after the success branch.
RecordSuccess(stats, usage) ==
    [stats EXCEPT
        !.total_prompt_tokens = @ + usage.prompt_tokens,
        !.total_completion_tokens = @ + usage.completion_tokens,
        !.total_successful_calls = @ + 1,
        !.max_context_window =
            IF usage.prompt_tokens + usage.completion_tokens > @
            THEN usage.prompt_tokens + usage.completion_tokens
            ELSE @]

\* stats["total_failed_calls"] += 1
RecordFailure(stats) == [stats EXCEPT !.total_failed_calls = @ + 1]

\* The first except clause, a faulty variant in which it also catches the provider
\* errors of the second clause (as a common base class would).
IsRetryableAnyProviderError(type) ==
    type \in NetworkErrors \cup {FunctionCallErrorException} \cup UnrecoverableErrors

\* The first except clause: network errors and the application-level error.
IsRetryable(type) == type \in NetworkErrors \cup {FunctionCallErrorException}

\* The second except clause.
IsUnrecoverable(type) == type \in UnrecoverableErrors

RETRY_PROMPT_0 == "You just made an empty response ... My request is: "
RETRY_PROMPT_1 == "You must ensure that you make a tool call or just say sth ..."
RETRY_PROMPT_2 == "It appears that I am unable to make further progress ..."

\* The turns appended after an application-level failure of attempt k.
CorrectiveTurns(k) ==
    IF k = 0
    THEN <<Msg("assistant", Str(<<>>)),
           Msg("user", Str(<<RETRY_PROMPT_0>> \o messages[Len(messages)].content.text))>>
    ELSE IF k = 1
    THEN <<Msg("user", Str(<<RETRY_PROMPT_1>>))>>
    ELSE <<Msg("assistant", Str(<<RETRY_PROMPT_2>>))>>

\* The prompt modification of the retry clause, a faulty variant that coaches
\* the model after a network failure too.
MessagesAfterAnyFailure(e) ==
    final_messages
    \o CorrectiveTurns(IF e.type = FunctionCallErrorException THEN attempt ELSE 1)

\* The prompt modification of the retry clause: `if is_app_error:` only.
MessagesAfterFailure(e) ==
    IF e.type = FunctionCallErrorException
    THEN final_messages \o CorrectiveTurns(attempt)
    ELSE final_messages

\* asyncio.sleep(llm_config.get("wait_seconds_on_retry", 3) * (attempt + 1))
BackoffSeconds(k) == wait_seconds_on_retry * (k + 1)

\* last_exception = e_retry
RecordLastException(e) == Some(e)

\* (stream_id if attempt == 0 else None) or str(uuid.uuid4()), a faulty variant that
\* prefers the caller's stream_id on every attempt.
StreamIdForAttemptReused(k) ==
    IF stream_id /= None THEN Val(stream_id) ELSE Uuid(next_uuid + 1)

\* (stream_id if attempt == 0 else None) or str(uuid.uuid4())
StreamIdForAttempt(k) ==
    IF k = 0 /\ stream_id /= None THEN Val(stream_id) ELSE Uuid(next_uuid + 1)

\* current_stream_id as the except clauses read it: set at the top of the
\* iteration that is running.
StreamIdOfAttempt ==
    IF pc = "attempt" THEN StreamIdForAttempt(attempt) ELSE Val(current_stream_id)

\* The failure counting, a faulty variant that counts a failed call in every
\* except clause.
StatsAfterFailureEveryClause(e) ==
    IF run_context /= None
    THEN Some(RecordFailure(Val(run_context)))
    ELSE run_context

\* The failure counting of the retry clause, a faulty variant that counts
\* network failures only.
StatsAfterFailureNetworkOnly(e) ==
    IF e.type \in NetworkErrors /\ run_context /= None
    THEN Some(RecordFailure(Val(run_context)))
    ELSE run_context

\* The failure counting of the retry clause: `if run_context:` in the first
\* except clause only.
StatsAfterFailure(e) ==
    IF IsRetryable(e.type) /\ run_context /= None
    THEN Some(RecordFailure(Val(run_context)))
    ELSE run_context

\* The reason of the stream-failed notification of each except clause.
FailureReason(e) ==
    IF IsRetryable(e.type)
    THEN [format |-> "Retrying due to: ", type |-> e.type, msg |-> e.msg]
    ELSE IF IsUnrecoverable(e.type)
    THEN [format |-> "Unrecoverable error: ", type |-> e.type, msg |-> e.msg]
    ELSE IF e.type = CancelledError
    THEN [format |-> "Operation was cancelled by user request.", type |-> "", msg |-> ""]
    ELSE [format |-> "Unexpected error: ", type |-> e.type, msg |-> e.msg]

\* What the except clause of e sends to the sink: the statistics broadcast of
\* the retry clause, then the stream-failed notification.
FailureNotifications(e) ==
    (IF IsRetryable(e.type) /\ run_context /= None /\ events /= None
     THEN <<TokenUsageUpdate(Val(StatsAfterFailure(e)))>> ELSE <<>>)
    \o (IF HasSinkIds THEN <<StreamFailed(StreamIdOfAttempt, FailureReason(e))>> ELSE <<>>)

\* The log after the except clause of e, a faulty variant that sleeps before
\* it notifies the sink.
LogAfterFailureSleepFirst(e, sent, backoff) ==
    log \o sent
        \o (IF backoff THEN <<Sleep(BackoffSeconds(attempt))>> ELSE <<>>)
        \o FailureNotifications(e)

\* The log after the except clause of e: what the step had sent, the
\* notifications of the clause, then the backoff sleep if there is one.
LogAfterFailure(e, sent, backoff) ==
    log \o sent \o FailureNotifications(e)
        \o (IF backoff THEN <<Sleep(BackoffSeconds(attempt))>> ELSE <<>>)

\* The `except Exception` clause, a faulty variant that lets the exception
\* leave the call.
UnexpectedOutcomePropagates(e) == Raised(e.type)

\* The `except Exception` clause: the exception becomes an error dict.
UnexpectedOutcome(e) == Returned(ErrorDict("unexpected", e))

\* Exception e raised inside the try block of the current attempt, after the
\* step had sent the notifications `sent`: what the except clauses do with
\* it, up to the return, the raise or the backoff sleep.
Caught(e, sent) ==
    /\ attempt_failure' = Some(e)
    /\ run_context' = StatsAfterFailure(e)
    /\ IF IsRetryable(e.type)
       THEN /\ last_exception' = RecordLastException(e)
            /\ IF attempt >= app_level_max_retries
               THEN \* break, then the block after the loop
                    /\ outcome' = Returned(ErrorDict("exhausted", Val(last_exception')))
                    /\ pc' = "done"
                    /\ UNCHANGED <<final_messages, waits>>
               ELSE IF e.type = FunctionCallErrorException /\ attempt = 0 /\ messages = <<>>
               THEN \* messages[-1] of an empty list
                    /\ outcome' = Raised("IndexError")
                    /\ pc' = "done"
                    /\ UNCHANGED <<final_messages, waits>>
               ELSE IF /\ e.type = FunctionCallErrorException
                       /\ attempt = 0
                       /\ ~messages[Len(messages)].content.is_str
               THEN \* "My request is: " + <a list>
                    /\ outcome' = Raised("TypeError")
                    /\ pc' = "done"
                    /\ UNCHANGED <<final_messages, waits>>
               ELSE /\ final_messages' = MessagesAfterFailure(e)
                    /\ waits' = Append(waits, BackoffSeconds(attempt))
                    /\ pc' = "backoff"
                    /\ UNCHANGED outcome
       ELSE /\ outcome' =
                  IF IsUnrecoverable(e.type) THEN Returned(ErrorDict("unrecoverable", e))
                  ELSE IF e.type = CancelledError THEN Raised(CancelledError)
                  ELSE UnexpectedOutcome(e)
            /\ pc' = "done"
            /\ UNCHANGED <<last_exception, final_messages, waits>>
    /\ log' = LogAfterFailure(e, sent, pc' = "backoff")

(***************************************************************************)
(* call_litellm_acompletion: the steps of a call.                          *)
(***************************************************************************)
\* The caller's list and the private copy after the system prompt is applied:
\* list(messages) copies the list, not the message objects.
WithSystemPrompt(msgs) ==
    IF system_prompt_content = None
    THEN [caller |-> msgs, final |-> msgs]
    ELSE IF msgs /= <<>> /\ msgs[1].role = "system"
    THEN LET m == [msgs EXCEPT ![1].content = Str(Val(system_prompt_content))]
         IN  [caller |-> m, final |-> m]
    ELSE [caller |-> msgs,
          final |-> <<Msg("system", Str(Val(system_prompt_content)))>> \o msgs]

\* Entry: the retry budget, the copy of the messages, the system prompt, and
\* the for loop's range, which is empty for a negative budget.
Start ==
    /\ pc = "start"
    /\ messages' = WithSystemPrompt(messages).caller
    /\ final_messages' = WithSystemPrompt(messages).final
    /\ IF app_level_max_retries + 1 <= 0
       THEN /\ pc' = "done"
            /\ outcome' = Raised("RuntimeError")
       ELSE /\ pc' = "attempt"
            /\ UNCHANGED outcome
    /\ UNCHANGED <<args, attempt, last_exception, current_stream_id, response_aggregator,
                   aggregated_response, dispatched, stream_ids, waits, attempt_failure,
                   next_uuid, run_context, log>>

\* The "start" events of an attempt: stream started, then request parameters.
StartNotifications(sid) ==
    IF HasSinkIds THEN <<StreamStarted(sid), RequestParams(sid)>> ELSE <<>>

\* Top of a loop iteration, a faulty variant that checks the model after the
\* stream-started and request-parameters notifications.
BeginAttemptChecksModelLate ==
    /\ pc = "attempt"
    /\ current_stream_id' = Some(StreamIdForAttempt(attempt))
    /\ next_uuid' = IF Val(current_stream_id') = Uuid(next_uuid + 1)
                    THEN next_uuid + 1 ELSE next_uuid
    /\ stream_ids' = Append(stream_ids, Val(current_stream_id'))
    /\ IF llm_config.model = None
       THEN /\ Caught(Exc("ValueError", NO_MODEL_MSG, attempt),
                      StartNotifications(Val(current_stream_id')))
            /\ UNCHANGED dispatched
       ELSE /\ dispatched' = Append(dispatched, final_messages)
            /\ log' = log \o StartNotifications(Val(current_stream_id'))
                          \o <<Acompletion(attempt)>>
            /\ pc' = "open"
            /\ UNCHANGED <<last_exception, final_messages, outcome, waits, attempt_failure,
                           run_context>>
    /\ UNCHANGED <<args, messages, attempt, response_aggregator, aggregated_response>>

\* Top of a loop iteration up to the await of litellm.acompletion.
BeginAttempt ==
    /\ pc = "attempt"
    /\ current_stream_id' = Some(StreamIdForAttempt(attempt))
    /\ next_uuid' = IF Val(current_stream_id') = Uuid(next_uuid + 1)
                    THEN next_uuid + 1 ELSE next_uuid
    /\ stream_ids' = Append(stream_ids, Val(current_stream_id'))
    /\ IF llm_config.model = None
       THEN /\ Caught(Exc("ValueError", NO_MODEL_MSG, attempt), <<>>)
            /\ UNCHANGED dispatched
       ELSE /\ dispatched' = Append(dispatched, final_messages)
            /\ log' = log \o StartNotifications(Val(current_stream_id'))
                          \o <<Acompletion(attempt)>>
            /\ pc' = "open"
            /\ UNCHANGED <<last_exception, final_messages, outcome, waits, attempt_failure,
                           run_context>>
    /\ UNCHANGED <<args, messages, attempt, response_aggregator, aggregated_response>>

\* litellm.acompletion returns the stream; a fresh aggregator is built.
OpenReturns ==
    /\ pc = "open"
    /\ response_aggregator' = Some(NewAggregator(Val(current_stream_id)))
    /\ pc' = "stream"
    /\ UNCHANGED <<args, messages, attempt, last_exception, final_messages,
                   current_stream_id, aggregated_response, outcome, dispatched,
                   stream_ids, waits, attempt_failure, next_uuid, run_context, log>>

\* litellm.acompletion raises.
OpenRaises ==
    /\ pc = "open"
    /\ \E type \in provider.open_errors : Caught(Exc(type, TRANSPORT_MSG, attempt), <<>>)
    /\ UNCHANGED <<args, messages, attempt, current_stream_id, response_aggregator,
                   aggregated_response, dispatched, stream_ids, next_uuid>>

\* The stream yields a fragment: process_chunk.
NextChunk ==
    /\ pc = "stream"
    /\ Len(Val(response_aggregator).raw_chunks) < MaxChunks
    /\ \E chunk \in provider.fragments :
          LET r == ProcessChunk(Val(response_aggregator), chunk)
              sent == IF events /= None
                      THEN ChunkNotifications(Val(response_aggregator), chunk)
                      ELSE <<>>
          IN  /\ response_aggregator' = Some(r.agg)
              /\ IF r.raised
                 THEN Caught(Exc(FunctionCallErrorException, MARKER_MSG, attempt), sent)
                 ELSE /\ log' = log \o sent
                      /\ UNCHANGED <<pc, last_exception, final_messages, outcome, waits,
                                     attempt_failure, run_context>>
    /\ UNCHANGED <<args, messages, attempt, current_stream_id, aggregated_response,
                   dispatched, stream_ids, next_uuid>>

\* The stream raises while it is read.
StreamRaises ==
    /\ pc = "stream"
    /\ \E type \in provider.stream_errors : Caught(Exc(type, TRANSPORT_MSG, attempt), <<>>)
    /\ UNCHANGED <<args, messages, attempt, current_stream_id, response_aggregator,
                   aggregated_response, dispatched, stream_ids, next_uuid>>

\* not content.strip() and not tool_calls, a faulty variant that lost the second `not`.
IsEmptyResponseMissingNot(resp) == Strip(resp.content) = <<>> /\ resp.tool_calls /= <<>>

\* not aggregated_response.get("content", "").strip() and not ...get("tool_calls", [])
IsEmptyResponse(resp) == Strip(resp.content) = <<>> /\ resp.tool_calls = <<>>

\* aggregated_response['final_stream_id'] = current_stream_id
WithFinalStreamId(resp, sid) ==
    [reasoning |-> resp.reasoning,
     content |-> resp.content,
     tool_calls |-> resp.tool_calls,
     model_id_used |-> resp.model_id_used,
     actual_usage |-> resp.actual_usage,
     final_stream_id |-> sid]

\* The statistics update of the success branch, a faulty variant that counts
\* the call also when the response has no usage.
StatsAfterSuccessAlwaysCounted(resp) ==
    IF run_context = None THEN run_context
    ELSE IF resp.actual_usage /= None
    THEN Some(RecordSuccess(Val(run_context), Val(resp.actual_usage)))
    ELSE Some([Val(run_context) EXCEPT !.total_successful_calls = @ + 1])

\* The statistics update of the success branch, a faulty variant that adds the
\* tokens but does not count the call.
StatsAfterSuccessNotCounted(resp) ==
    IF run_context /= None /\ resp.actual_usage /= None
    THEN Some([RecordSuccess(Val(run_context), Val(resp.actual_usage))
                  EXCEPT !.total_successful_calls = @ - 1])
    ELSE run_context

\* The statistics update of the success branch: `if run_context:` and
\* `if usage and isinstance(usage, dict):`.
StatsAfterSuccess(resp) ==
    IF run_context /= None /\ resp.actual_usage /= None
    THEN Some(RecordSuccess(Val(run_context), Val(resp.actual_usage)))
    ELSE run_context

\* What the success branch sends to the sink: the statistics broadcast when
\* the statistics were updated, then stream ended (`if events:`).
SuccessNotifications(resp, sid) ==
    (IF run_context /= None /\ resp.actual_usage /= None /\ events /= None
     THEN <<TokenUsageUpdate(Val(StatsAfterSuccess(resp)))>> ELSE <<>>)
    \o (IF events /= None THEN <<StreamEnded(sid)>> ELSE <<>>)

\* The stream ends: the response is aggregated, checked and returned.
StreamEnds ==
    /\ pc = "stream"
    /\ LET resp == GetAggregatedResponse(Val(response_aggregator))
       IN  /\ aggregated_response' = Some(resp)
           /\ IF IsEmptyResponse(resp)
              THEN Caught(Exc(FunctionCallErrorException, EMPTY_MSG, attempt), <<>>)
              ELSE /\ outcome' = Returned(WithFinalStreamId(resp, Val(current_stream_id)))
                   /\ run_context' = StatsAfterSuccess(resp)
                   /\ log' = log \o SuccessNotifications(resp, Val(current_stream_id))
                   /\ pc' = "done"
                   /\ UNCHANGED <<last_exception, final_messages, waits, attempt_failure>>
    /\ UNCHANGED <<args, messages, attempt, current_stream_id, response_aggregator,
                   dispatched, stream_ids, next_uuid>>

\* The task is cancelled while the call awaits the open or a fragment: the
\* CancelledError is raised inside the try block.
CancelInAttempt ==
    /\ pc \in {"open", "stream"}
    /\ Caught(Exc(CancelledError, "", attempt), <<>>)
    /\ UNCHANGED <<args, messages, attempt, current_stream_id, response_aggregator,
                   aggregated_response, dispatched, stream_ids, next_uuid>>

\* The task is cancelled during the backoff sleep, which is inside the first
\* except clause: no other clause of the same try statement catches it.
CancelInBackoff ==
    /\ pc = "backoff"
    /\ outcome' = Raised(CancelledError)
    /\ pc' = "done"
    /\ UNCHANGED <<args, messages, attempt, last_exception, final_messages,
                   current_stream_id, response_aggregator, aggregated_response,
                   dispatched, stream_ids, waits, attempt_failure, next_uuid,
                   run_context, log>>

\* The backoff sleep returns: continue with the next iteration.  The
\* aggregator and the response of the failed attempt are not read again.
BackoffDone ==
    /\ pc = "backoff"
    /\ attempt' = attempt + 1
    /\ pc' = "attempt"
    /\ response_aggregator' = None
    /\ aggregated_response' = None
    /\ UNCHANGED <<args, messages, last_exception, final_messages, current_stream_id,
                   outcome, dispatched, stream_ids, waits, attempt_failure, next_uuid,
                   run_context, log>>

Next ==
    \/ Start
    \/ BeginAttempt
    \/ OpenReturns
    \/ OpenRaises
    \/ NextChunk
    \/ StreamRaises
    \/ StreamEnds
    \/ CancelInAttempt
    \/ CancelInBackoff
    \/ BackoffDone

Spec == Init /\ [][Next]_vars


(***************************************************************************)
(* A call with an event sink and run statistics: no sink, a sink with both *)
(* ids, a sink without the agent id, a sink without the run id; with and   *)
(* without a statistics object; against a provider with errors of each     *)
(* class.                                                                  *)
(***************************************************************************)
SinkArgs ==
    { [events |-> None, agent_id |-> None, run_id |-> None],
      [events |-> Some("sink"), agent_id |-> Some("agent"), run_id |-> Some("run")],
      [events |-> Some("sink"), agent_id |-> None, run_id |-> Some("run")],
      [events |-> Some("sink"), agent_id |-> Some("agent"), run_id |-> None] }

SinkFragments ==
    { ContentChunk(<<"<tool_">>),
      ContentChunk(<<"code>">>),
      UsageChunk(U1) }

SinkProvider ==
    [open_errors |-> {"RateLimitError", "AuthenticationError", "KeyError"},
     stream_errors |-> {"Timeout", "KeyError"},
     fragments |-> SinkFragments]

SinkInit ==
    /\ messages = <<Msg("user", Str(<<"hi">>))>>
    /\ llm_config \in [model : {None, Some("m")},
                        max_retries : {Some(n) : n \in 0..MaxSinkRetries},
                        wait_seconds_on_retry : {None}]
    /\ stream_id = Some(CallerStreamId)
    /\ system_prompt_content = None
    /\ \E a \in SinkArgs :
          /\ events = a.events
          /\ agent_id_for_event = a.agent_id
          /\ run_id_for_event = a.run_id
    /\ run_context \in {None, Some(InitialStats)}
    /\ provider = SinkProvider
    /\ pc = "start"
    /\ attempt = 0
    /\ last_exception = None
    /\ final_messages = <<>>
    /\ current_stream_id = None
    /\ response_aggregator = None
    /\ aggregated_response = None
    /\ outcome = Pending
    /\ dispatched = <<>>
    /\ stream_ids = <<>>
    /\ waits = <<>>
    /\ attempt_failure = None
    /\ next_uuid = 0
    /\ log = <<>>
    /\ OthersIdle

SpecSink == SinkInit /\ [][Next]_vars


(***************************************************************************)
(* The aggregator alone: one LLMResponseAggregator fed any sequence of     *)
(* fragments, then get_aggregated_response.                                *)
(***************************************************************************)
ToolIndices == 0..MaxToolIndex

\* Tool-call deltas: an id with a name, then the arguments in two halves.
AggTcDeltas ==
    UNION { { TcDelta(TRUE, i, Some("a"), Some(<<"f">>), None),
              TcDelta(TRUE, i, None, None, Some(<<"{", "a:">>)),
              TcDelta(TRUE, i, Some("b"), None, Some(<<"1", "}">>)) } : i \in ToolIndices }

AggFragments ==
    { ToolChunk(<<d>>) : d \in AggTcDeltas }
    \cup { ToolChunk(<<TcDelta(TRUE, i, Some("a"), Some(<<"f">>), None),
                       TcDelta(TRUE, 0, None, Some(<<"g">>), None)>>) : i \in ToolIndices \ {0} }
    \cup { ToolChunk(<<TcDelta(FALSE, 0, Some("c"), None, Some(<<"{">>))>>) }
    \cup { UsageChunk(U1), UsageChunk(UBad),
           [ContentChunk(<<"x">>) EXCEPT !.usage = Some(U2), !.model = Some("m1")],
           [BaseChunk EXCEPT !.has_choices = FALSE],
           [ReasoningChunk(<<"r">>) EXCEPT !.model = Some("m2")],
           ContentChunk(<<"<tool_", "call>">>) }

AggInit ==
    /\ messages = <<>>
    /\ llm_config = [model |-> Some("m"), max_retries |-> None, wait_seconds_on_retry |-> None]
    /\ stream_id = None
    /\ system_prompt_content = None
    /\ pc = "agg"
    /\ attempt = 0
    /\ last_exception = None
    /\ final_messages = <<>>
    /\ current_stream_id = Some(Uuid(1))
    /\ response_aggregator = Some(NewAggregator(Uuid(1)))
    /\ aggregated_response = None
    /\ outcome = Pending
    /\ dispatched = <<>>
    /\ stream_ids = <<>>
    /\ waits = <<>>
    /\ attempt_failure = None
    /\ next_uuid = 1
    /\ events = None
    /\ agent_id_for_event = None
    /\ run_id_for_event = None
    /\ run_context = None
    /\ provider = FullProvider
    /\ log = <<>>
    /\ OthersIdle

\* process_chunk on the next fragment; pc tells whether it raised.
AggProcessChunk ==
    /\ pc = "agg"
    /\ Len(Val(response_aggregator).raw_chunks) < MaxAggChunks
    /\ \E chunk \in AggFragments :
          LET r == ProcessChunk(Val(response_aggregator), chunk)
          IN  /\ response_aggregator' = Some(r.agg)
              /\ pc' = IF r.raised THEN "agg_raised" ELSE "agg"
    /\ UNCHANGED <<args, messages, attempt, last_exception, final_messages,
                   current_stream_id, aggregated_response, outcome, dispatched,
                   stream_ids, waits, attempt_failure, next_uuid, run_context, log>>

\* get_aggregated_response after the last fragment.
AggFinalize ==
    /\ pc = "agg"
    /\ aggregated_response' = Some(GetAggregatedResponse(Val(response_aggregator)))
    /\ pc' = "agg_done"
    /\ UNCHANGED <<args, messages, attempt, last_exception, final_messages,
                   current_stream_id, response_aggregator, outcome, dispatched,
                   stream_ids, waits, attempt_failure, next_uuid, run_context, log>>

AggNext ==
    \/ AggProcessChunk
    \/ AggFinalize

SpecAgg == AggInit /\ [][AggNext]_vars


(***************************************************************************)
(* estimate_prompt_tokens: one call of the function on any combination of  *)
(* its arguments.                                                          *)
(***************************************************************************)
\* No call of call_litellm_acompletion is under way.
CallIdle ==
    /\ messages = <<>>
    /\ llm_config = [model |-> None, max_retries |-> None, wait_seconds_on_retry |-> None]
    /\ stream_id = None
    /\ system_prompt_content = None
    /\ pc = "idle"
    /\ attempt = 0
    /\ last_exception = None
    /\ final_messages = <<>>
    /\ current_stream_id = None
    /\ response_aggregator = None
    /\ aggregated_response = None
    /\ outcome = Pending
    /\ dispatched = <<>>
    /\ stream_ids = <<>>
    /\ waits = <<>>
    /\ attempt_failure = None
    /\ next_uuid = 0
    /\ events = None
    /\ agent_id_for_event = None
    /\ run_id_for_event = None
    /\ run_context = None
    /\ provider = FullProvider
    /\ log = <<>>

\* The arguments of estimate_prompt_tokens: model is a name or the empty
\* string; llm_config_for_tokenizer is absent, or a dict whose
\* litellm_token_counter_model is missing, empty or a name.
EstimateArgs ==
    [model : {"", "m"},
     text : {None, Some(<<>>), Some(<<"a", "b">>)},
     messages : {None, Some(<<>>), Some(<<Msg("user", Str(<<"hi">>))>>)},
     system_prompt : {None, Some(<<>>), Some(<<"sp">>)},
     llm_config_for_tokenizer :
         {None} \cup {Some([litellm_token_counter_model |-> m]) :
                          m \in {None, Some(""), Some("t")}}]

\* llm_config_for_tokenizer and llm_config_for_tokenizer.get("litellm_token_counter_model")
HasTokenizerOverride(a) ==
    /\ a.llm_config_for_tokenizer /= None
    /\ Val(a.llm_config_for_tokenizer).litellm_token_counter_model /= None
    /\ Val(Val(a.llm_config_for_tokenizer).litellm_token_counter_model) /= ""

ModelForCounting(a) ==
    IF HasTokenizerOverride(a)
    THEN Val(Val(a.llm_config_for_tokenizer).litellm_token_counter_model)
    ELSE a.model

MessagesForCalc(a) ==
    (IF a.system_prompt /= None /\ Val(a.system_prompt) /= <<>>
     THEN <<Msg("system", Str(Val(a.system_prompt)))>> ELSE <<>>)
    \o (IF a.text /= None THEN <<Msg("user", Str(Val(a.text)))>>
        ELSE IF a.messages /= None THEN Val(a.messages)
        ELSE <<>>)

\* litellm.token_counter when it returns: the tokens of every content, and
\* one token of framing for each message.
RECURSIVE TokenCounter(_, _)
TokenCounter(model, msgs) ==
    IF msgs = <<>> THEN 0
    ELSE Len(Head(msgs).content.text) + 1 + TokenCounter(model, Tail(msgs))

\* estimate_prompt_tokens; counter_raises tells whether litellm.token_counter
\* raises.
EstimatePromptTokens(a, counter_raises) ==
    IF ~HasTokenizerOverride(a) /\ a.model = "" THEN Returned(0)
    ELSE IF a.text /= None /\ a.messages /= None THEN Raised("ValueError")
    ELSE IF MessagesForCalc(a) = <<>> THEN Returned(0)
    ELSE IF counter_raises THEN Returned(0)
    ELSE Returned(TokenCounter(ModelForCounting(a), MessagesForCalc(a)))

EstInit ==
    /\ CallIdle
    /\ ParamsIdle
    /\ PairIdle
    /\ ServerIdle
    /\ StatsIdle
    /\ est_args \in EstimateArgs
    /\ est_result = None

\* The call of estimate_prompt_tokens.
Estimate ==
    /\ est_args /= None
    /\ est_result = None
    /\ \E counter_raises \in BOOLEAN :
          est_result' = EstimatePromptTokens(est_args, counter_raises)
    /\ UNCHANGED <<call_vars, est_args, params_vars, pair_vars, upload_vars, ws_vars, stats_vars>>

EstNext == Estimate

SpecEst == EstInit /\ [][EstNext]_vars


(***************************************************************************)
(* Preparation of the transport parameters of an attempt, on any           *)
(* combination of configuration keys and extra keyword arguments.  A dict  *)
(* is a function from its keys to None or Some(value).                     *)
(***************************************************************************)
\* The dict with the keys of `keys`, each with its value in `values`.
DictOf(keys, values) == [k \in keys |-> values[k]]

\* {**d1, **d2}
Merged(d1, d2) == d2 @@ d1

\* What llm_config may hold besides the model: the orchestration keys, a key
\* whose value is None, and keys named like the call's own entries.
ConfigValues ==
    [max_retries |-> Some(1),
     wait_seconds_on_retry |-> Some(2),
     stream_id |-> Some(CallerStreamId),
     parent_agent_id |-> Some("parent"),
     temperature |-> None,
     messages |-> Some(<<Msg("user", Str(<<"cfg">>))>>),
     stream |-> Some(FALSE)]

\* What **kwargs may hold: messages, stream and stream_id are parameters of
\* the function and never land in kwargs.
KwargValues ==
    [max_retries |-> Some(3),
     wait_seconds_on_retry |-> Some(4),
     parent_agent_id |-> Some("kw_parent"),
     stream_options |-> None]

ParamsArgs ==
    [llm_config : {Merged(DictOf({"model"}, [model |-> Some("m")]), DictOf(ks, ConfigValues)) :
                      ks \in SUBSET DOMAIN ConfigValues},
     final_messages : {<<>>, <<Msg("user", Str(<<"hi">>))>>},
     kwargs : {DictOf(ks, KwargValues) : ks \in SUBSET DOMAIN KwargValues},
     api_tools_list : {None, Some(<<"tool">>)},
     tool_choice : {None, Some("auto")},
     stream : BOOLEAN]

\* FILTERED_KEYS, a faulty variant that lets the stream id through.
FILTERED_KEYS_WithoutStreamId == {"parent_agent_id", "wait_seconds_on_retry", "max_retries"}

FILTERED_KEYS == {"stream_id", "parent_agent_id", "wait_seconds_on_retry", "max_retries"}

\* {**llm_config, "messages": final_messages, "stream": True, **kwargs}
BaseParams(a) ==
    Merged(Merged(Merged(a.llm_config, DictOf({"messages"}, [messages |-> Some(a.final_messages)])),
                  DictOf({"stream"}, [stream |-> Some(TRUE)])),
           a.kwargs)

\* if api_tools_list: tools, and tool_choice if given.
WithTools(a, d) ==
    IF a.api_tools_list = None THEN d
    ELSE LET t == Merged(d, DictOf({"tools"}, [tools |-> a.api_tools_list]))
         IN  IF a.tool_choice = None THEN t
             ELSE Merged(t, DictOf({"tool_choice"}, [tool_choice |-> a.tool_choice]))

\* base_params.setdefault("stream_options", {}) hands back None when the key is
\* there with the value None, and the item assignment raises TypeError.
StreamOptionsRaises(a, d) ==
    a.stream /\ "stream_options" \in DOMAIN d /\ d["stream_options"] = None

WithStreamOptions(a, d) ==
    IF a.stream
    THEN Merged(d, DictOf({"stream_options"}, [stream_options |-> Some([include_usage |-> TRUE])]))
    ELSE d

\* {k: v for k, v in base_params.items() if v is not None}
WithoutNone(d) == DictOf({k \in DOMAIN d : d[k] /= None}, d)

\* {k: v for k, v in base_params.items() if k not in FILTERED_KEYS}
WithoutFiltered(d) == DictOf(DOMAIN d \ FILTERED_KEYS, d)

\* params_for_litellm as the attempt hands it to litellm.acompletion, or the
\* exception of its preparation.
ParamsForLitellm(a) ==
    LET d == WithTools(a, BaseParams(a))
    IN  IF StreamOptionsRaises(a, d) THEN Raised("TypeError")
        ELSE Returned(WithoutFiltered(WithoutNone(WithStreamOptions(a, d))))

ParamsInit ==
    /\ CallIdle
    /\ EstimatorIdle
    /\ PairIdle
    /\ ServerIdle
    /\ StatsIdle
    /\ params_args \in ParamsArgs
    /\ params_for_litellm = None

\* The preparation of the parameters at the top of an attempt.
PrepareParams ==
    /\ params_args /= None
    /\ params_for_litellm = None
    /\ params_for_litellm' = ParamsForLitellm(params_args)
    /\ UNCHANGED <<call_vars, est_vars, params_args, pair_vars, upload_vars, ws_vars, stats_vars>>

ParamsNext == PrepareParams

SpecParams == ParamsInit /\ [][ParamsNext]_vars


(***************************************************************************)
(* Two calls of call_litellm_acompletion in flight on one event loop, both *)
(* given the same message list object.  A step of a call runs from one     *)
(* await to the next; the calls interleave at the awaits only.  A message  *)
(* list holds references: Ref(i) is the i-th dict of the caller's list,    *)
(* Own(m) a dict that the call built itself.                               *)
(***************************************************************************)
Calls == {1, 2}

Ref(i) == [ref |-> i]
Own(m) == [own |-> m]
Deref(entry, shared) == IF "ref" \in DOMAIN entry THEN shared[entry.ref] ELSE entry.own
DerefAll(entries, shared) == [i \in 1..Len(entries) |-> Deref(entries[i], shared)]

\* The system prompt each call was given.
PairSystemPrompt(c) == <<"sp", c>>

\* The message lists that the two calls share.
PairMessageLists ==
    { <<Msg("system", Str(<<"s0">>)), Msg("user", Str(<<"hi">>))>>,
      <<Msg("user", Str(<<"hi">>))>> }

\* final_messages = list(messages), and the system prompt written into the
\* first dict of the list or inserted as a new dict: the caller's list and
\* the call's list afterwards.
PairWithSystemPrompt(shared, prompt) ==
    LET copy == [i \in 1..Len(shared) |-> Ref(i)]
    IN  IF shared /= <<>> /\ shared[1].role = "system"
        THEN [caller |-> [shared EXCEPT ![1].content = Str(prompt)], final |-> copy]
        ELSE [caller |-> shared, final |-> <<Own(Msg("system", Str(prompt)))>> \o copy]

\* The corrective turns of the retry clause, which read messages[-1] of the
\* caller's list at that moment.
PairCorrectiveTurns(k, shared) ==
    IF k = 0
    THEN <<Own(Msg("assistant", Str(<<>>))),
           Own(Msg("user", Str(<<RETRY_PROMPT_0>> \o shared[Len(shared)].content.text)))>>
    ELSE IF k = 1
    THEN <<Own(Msg("user", Str(<<RETRY_PROMPT_1>>)))>>
    ELSE <<Own(Msg("assistant", Str(<<RETRY_PROMPT_2>>)))>>

\* litellm.acompletion(**params_for_litellm): the transport gets the call's
\* list as its dicts are at that moment.
PairDispatch(call, shared) ==
    [call EXCEPT !.dispatched = Append(@, DerefAll(call.final_messages, shared)),
                 !.pc = "open"]

\* Top of a loop iteration up to its first await: the "started" notification
\* when there is a sink with ids, litellm.acompletion otherwise.
PairTopOfAttempt(call, shared) ==
    IF call.events /= None THEN [call EXCEPT !.pc = "emit_started"]
    ELSE PairDispatch(call, shared)

\* The retry clause after its "failed" notification: exhaustion, else the
\* corrective turns of an application-level failure, then the backoff sleep.
PairAfterFailure(call, shared) ==
    IF call.attempt >= call.max_retries
    THEN [call EXCEPT !.pc = "done", !.outcome = "error"]
    ELSE [call EXCEPT !.pc = "backoff",
                      !.final_messages =
                          IF call.failure = FunctionCallErrorException
                          THEN @ \o PairCorrectiveTurns(call.attempt, shared)
                          ELSE @]

\* An attempt ends with a retryable exception: the retry clause up to its
\* first await, the "failed" notification when there is a sink with ids.
PairCaught(call, type, shared) ==
    LET failed == [call EXCEPT !.failure = type]
    IN  IF call.events /= None THEN [failed EXCEPT !.pc = "emit_failed"]
        ELSE PairAfterFailure(failed, shared)

PairInit ==
    /\ CallIdle
    /\ EstimatorIdle
    /\ ParamsIdle
    /\ ServerIdle
    /\ StatsIdle
    /\ caller_messages \in PairMessageLists
    /\ \E sink \in {None, Some("sink")} :
       \E retries \in [Calls -> 0..MaxPairRetries] :
          calls = [c \in Calls |->
                      [system_prompt_content |-> PairSystemPrompt(c),
                       events |-> sink,
                       max_retries |-> retries[c],
                       pc |-> "start",
                       attempt |-> 0,
                       final_messages |-> <<>>,
                       failure |-> "",
                       dispatched |-> <<>>,
                       outcome |-> "pending"]]

\* A call runs from its first line to the first await of attempt 0.
PairStart(c) ==
    /\ calls[c].pc = "start"
    /\ LET w == PairWithSystemPrompt(caller_messages, calls[c].system_prompt_content)
           begun == [calls[c] EXCEPT !.final_messages = w.final]
       IN  /\ caller_messages' = w.caller
           /\ calls' = [calls EXCEPT ![c] = PairTopOfAttempt(begun, w.caller)]
    /\ UNCHANGED <<call_vars, est_vars, params_vars, upload_vars, ws_vars, stats_vars>>

\* emit_llm_stream_started returns; the call awaits emit_llm_request_params.
PairStartedEmitted(c) ==
    /\ calls[c].pc = "emit_started"
    /\ calls' = [calls EXCEPT ![c].pc = "emit_params"]
    /\ UNCHANGED <<call_vars, est_vars, params_vars, upload_vars, ws_vars, stats_vars,
                   caller_messages>>

\* emit_llm_request_params returns; the call awaits litellm.acompletion.
PairParamsEmitted(c) ==
    /\ calls[c].pc = "emit_params"
    /\ calls' = [calls EXCEPT ![c] = PairDispatch(calls[c], caller_messages)]
    /\ UNCHANGED <<call_vars, est_vars, params_vars, upload_vars, ws_vars, stats_vars,
                   caller_messages>>

\* litellm.acompletion returns the stream.
PairOpenReturns(c) ==
    /\ calls[c].pc = "open"
    /\ calls' = [calls EXCEPT ![c].pc = "stream"]
    /\ UNCHANGED <<call_vars, est_vars, params_vars, upload_vars, ws_vars, stats_vars,
                   caller_messages>>

\* litellm.acompletion raises a network error.
PairOpenRaises(c) ==
    /\ calls[c].pc = "open"
    /\ calls' = [calls EXCEPT ![c] = PairCaught(calls[c], "APIConnectionError", caller_messages)]
    /\ UNCHANGED <<call_vars, est_vars, params_vars, upload_vars, ws_vars, stats_vars,
                   caller_messages>>

\* The stream ends with a response that is returned.
PairStreamSucceeds(c) ==
    /\ calls[c].pc = "stream"
    /\ calls' = [calls EXCEPT ![c].pc = "done", ![c].outcome = "success"]
    /\ UNCHANGED <<call_vars, est_vars, params_vars, upload_vars, ws_vars, stats_vars,
                   caller_messages>>

\* The stream ends the attempt with a retryable failure: a marker or an empty
\* response, or a network error.
PairStreamFails(c) ==
    /\ calls[c].pc = "stream"
    /\ \E type \in {FunctionCallErrorException, "Timeout"} :
          calls' = [calls EXCEPT ![c] = PairCaught(calls[c], type, caller_messages)]
    /\ UNCHANGED <<call_vars, est_vars, params_vars, upload_vars, ws_vars, stats_vars,
                   caller_messages>>

\* emit_llm_stream_failed returns; the retry clause goes on.
PairFailedEmitted(c) ==
    /\ calls[c].pc = "emit_failed"
    /\ calls' = [calls EXCEPT ![c] = PairAfterFailure(calls[c], caller_messages)]
    /\ UNCHANGED <<call_vars, est_vars, params_vars, upload_vars, ws_vars, stats_vars,
                   caller_messages>>

\* The backoff sleep returns; the next attempt runs to its first await.
PairBackoffDone(c) ==
    /\ calls[c].pc = "backoff"
    /\ calls' = [calls EXCEPT ![c] =
                    PairTopOfAttempt([calls[c] EXCEPT !.attempt = @ + 1], caller_messages)]
    /\ UNCHANGED <<call_vars, est_vars, params_vars, upload_vars, ws_vars, stats_vars,
                   caller_messages>>

\* The task of a call is cancelled while it is suspended.
PairCancel(c) ==
    /\ calls[c].pc \notin {"start", "done"}
    /\ calls' = [calls EXCEPT ![c].pc = "done", ![c].outcome = "cancelled"]
    /\ UNCHANGED <<call_vars, est_vars, params_vars, upload_vars, ws_vars, stats_vars,
                   caller_messages>>

PairNext ==
    \E c \in Calls :
        \/ PairStart(c)
        \/ PairStartedEmitted(c)
        \/ PairParamsEmitted(c)
        \/ PairOpenReturns(c)
        \/ PairOpenRaises(c)
        \/ PairStreamSucceeds(c)
        \/ PairStreamFails(c)
        \/ PairFailedEmitted(c)
        \/ PairBackoffDone(c)
        \/ PairCancel(c)

SpecPair == PairInit /\ [][PairNext]_vars


(***************************************************************************)
(* api/server.py, upload_project_files: a request that uploads files into  *)
(* the assets directory of a project.  A file name is a sequence of        *)
(* tokens, "." and "/" among them; a size is a number of bytes.  A step of *)
(* the handler runs from one await to the next.                            *)
(***************************************************************************)
ALLOWED_FILE_EXTENSIONS ==
    { <<".", "txt">>, <<".", "md">>, <<".", "py">>, <<".", "rst">>,
      <<".", "yaml">>, <<".", "yml">>, <<".", "json">> }

MAX_FILE_SIZE_BYTES == 5 * 1024 * 1024
MAX_PROJECT_STORAGE_BYTES == 50 * 1024 * 1024

\* The positions of a token in a name.
PositionsOf(name, tok) == {i \in 1..Len(name) : name[i] = tok}

Last(positions) == CHOOSE i \in positions : \A j \in positions : j <= i

\* os.path.basename
Basename(name) ==
    IF PositionsOf(name, "/") = {} THEN name
    ELSE SubSeq(name, Last(PositionsOf(name, "/")) + 1, Len(name))

\* os.path.splitext(name)[1]: from the last dot on, unless only dots come
\* before it.
SplitExt(name) ==
    IF PositionsOf(name, ".") = {} THEN <<>>
    ELSE LET dot == Last(PositionsOf(name, "."))
         IN  IF \E i \in 1..(dot - 1) : name[i] /= "."
             THEN SubSeq(name, dot, Len(name))
             ELSE <<>>

\* str.lower
Lower(text) ==
    [i \in 1..Len(text) |->
        CASE text[i] = "TXT" -> "txt"
          [] text[i] = "EXE" -> "exe"
          [] OTHER -> text[i]]

\* `extension and extension not in ALLOWED_FILE_EXTENSIONS`, a faulty variant
\* that turns away executables only.
TypeNotAllowedOnlyExe(extension) == extension = <<".", "exe">>

\* extension and extension not in ALLOWED_FILE_EXTENSIONS
TypeNotAllowed(extension) ==
    extension /= <<>> /\ extension \notin ALLOWED_FILE_EXTENSIONS

\* An HTTPException, and the response of a request that went through.
HttpError(status, detail) == [status |-> status, detail |-> detail]
Detail(text) == [text |-> text]
NotAllowedDetail(extension) == [text |-> "File type is not allowed.", extension |-> extension]
UploadedResponse(saved_files) == [status |-> 200, uploaded |-> saved_files]

\* os.path.exists(destination)
Exists(dir, name) == \E f \in dir : f.name = name

\* _calculate_directory_size
RECURSIVE DirectorySize(_)
DirectorySize(dir) ==
    IF dir = {} THEN 0
    ELSE LET f == CHOOSE g \in dir : TRUE
         IN  f.size + DirectorySize(dir \ {f})

\* _serialize_file_entry
FileEntry(name, size) == [name |-> name, size |-> size]

\* An HTTPException raised before the file is opened ends the request.
Rejected(u, dir, status, detail) ==
    [upload |-> [u EXCEPT !.pc = "done", !.response = HttpError(status, detail)],
     assets |-> dir]

\* The body of the loop for the file at position u.i, up to `await
\* upload.close()`; write tells how writing the file went: "ok", "fails"
\* (nothing was created) or "fails_created" (the file was created, then the
\* copy failed).
ProcessFile(u, dir, write) ==
    LET file == u.files[u.i]
        safe_name == Basename(file.filename)
        extension == Lower(SplitExt(safe_name))
    IN  IF safe_name = <<>>
        THEN Rejected(u, dir, 400, Detail("Invalid filename."))
        ELSE IF TypeNotAllowed(extension)
        THEN Rejected(u, dir, 400, NotAllowedDetail(extension))
        ELSE IF file.size > MAX_FILE_SIZE_BYTES
        THEN Rejected(u, dir, 413, Detail("File exceeds the 5 MB limit."))
        ELSE IF u.total_usage + file.size > MAX_PROJECT_STORAGE_BYTES
        THEN Rejected(u, dir, 413, Detail("Project storage quota exceeded."))
        ELSE IF Exists(dir, safe_name)
        THEN Rejected(u, dir, 409, Detail("File already exists."))
        ELSE [upload |-> [u EXCEPT !.pc = "closing", !.write_failed = (write /= "ok")],
              assets |-> CASE write = "ok" -> dir \cup {FileEntry(safe_name, file.size)}
                           [] write = "fails_created" -> dir \cup {FileEntry(safe_name, 0)}
                           [] OTHER -> dir]

WriteOutcomes == {"ok", "fails", "fails_created"}

\* What a request may carry: names with an allowed, an upper-case, a
\* disallowed, a missing extension, the name of the tests' PDF, an empty
\* name and a name with a directory part; sizes below, at and above the
\* limit of a file.
UploadNames ==
    { <<"a", ".", "txt">>, <<"b", ".", "TXT">>, <<"malware", ".", "exe">>,
      <<"example", ".", "pdf">>, <<"README">>, <<>>, <<"d", "/", "a", ".", "txt">> }

UploadSizes == {8, MAX_FILE_SIZE_BYTES, MAX_FILE_SIZE_BYTES + 1}

UploadFiles == [filename : UploadNames, size : UploadSizes]

UploadLists == UNION {[1..n -> UploadFiles] : n \in 0..MaxUploadFiles}

\* The assets directory before the request: empty, holding a small file, or
\* one file short of the quota by the size of a largest file.
AssetDirs ==
    { {},
      {FileEntry(<<"a", ".", "txt">>, 8)},
      {FileEntry(<<"old", ".", "md">>, MAX_PROJECT_STORAGE_BYTES - MAX_FILE_SIZE_BYTES)} }

NewUpload(files, dir) ==
    [files |-> files,
     assets_before |-> dir,
     pc |-> "start",
     i |-> 1,
     saved_files |-> <<>>,
     total_usage |-> 0,
     write_failed |-> FALSE,
     response |-> None]

UploadInit ==
    /\ CallIdle
    /\ EstimatorIdle
    /\ ParamsIdle
    /\ PairIdle
    /\ StatsIdle
    /\ WsIdle
    /\ assets \in AssetDirs
    /\ \E files \in UploadLists : uploads = [r \in {1} |-> NewUpload(files, assets)]

\* The handler from its first line to its first await, or to its end when
\* there is none.
UploadStart(r) ==
    /\ uploads[r].pc = "start"
    /\ IF uploads[r].files = <<>>
       THEN /\ uploads' = [uploads EXCEPT ![r].pc = "done",
                                          ![r].response = HttpError(400, Detail("No files uploaded."))]
            /\ UNCHANGED assets
       ELSE \E write \in WriteOutcomes :
               LET u == [uploads[r] EXCEPT !.total_usage = DirectorySize(assets)]
                   p == ProcessFile(u, assets, write)
               IN  /\ uploads' = [uploads EXCEPT ![r] = p.upload]
                   /\ assets' = p.assets
    /\ UNCHANGED <<call_vars, est_vars, params_vars, pair_vars, ws_vars, stats_vars>>

\* upload.close() returns: status 500 if the write had failed; else the
\* file is recorded and the next one processed, or the response returned.
UploadClosed(r) ==
    /\ uploads[r].pc = "closing"
    /\ LET u == uploads[r]
           file == u.files[u.i]
           saved == [u EXCEPT !.saved_files = Append(@, FileEntry(Basename(file.filename), file.size)),
                              !.total_usage = @ + file.size,
                              !.i = @ + 1]
       IN  IF u.write_failed
           THEN /\ uploads' = [uploads EXCEPT ![r].pc = "done",
                                   ![r].response = HttpError(500, Detail("Could not save uploaded file."))]
                /\ UNCHANGED assets
           ELSE IF saved.i > Len(saved.files)
           THEN /\ uploads' = [uploads EXCEPT ![r] =
                                   [saved EXCEPT !.pc = "done",
                                                 !.response = UploadedResponse(saved.saved_files)]]
                /\ UNCHANGED assets
           ELSE \E write \in WriteOutcomes :
                   LET p == ProcessFile(saved, assets, write)
                   IN  /\ uploads' = [uploads EXCEPT ![r] = p.upload]
                       /\ assets' = p.assets
    /\ UNCHANGED <<call_vars, est_vars, params_vars, pair_vars, ws_vars, stats_vars>>

UploadNext ==
    \E r \in DOMAIN uploads :
        \/ UploadStart(r)
        \/ UploadClosed(r)

SpecUpload == UploadInit /\ [][UploadNext]_vars


(***************************************************************************)
(* Two upload requests in flight on one event loop for one project: each   *)
(* handler runs from one await to the next, and `await upload.close()` is  *)
(* where the other handler may run.  The files are large enough for their  *)
(* close to suspend the handler.                                           *)
(***************************************************************************)
Requests == {1, 2}

ConcurrentNames == { <<"a", ".", "txt">>, <<"n", ".", "md">>, <<"c", ".", "json">> }

ConcurrentSizes == {2 * 1024 * 1024, 3 * 1024 * 1024}

ConcurrentLists ==
    UNION {[1..n -> [filename : ConcurrentNames, size : ConcurrentSizes]] : n \in 0..2}

\* The assets directory before the requests, within the quota: empty, or
\* short of the quota by the size of a largest file.
ConcurrentDirs ==
    { {}, {FileEntry(<<"old", ".", "md">>, MAX_PROJECT_STORAGE_BYTES - MAX_FILE_SIZE_BYTES)} }

UploadsInit ==
    /\ CallIdle
    /\ EstimatorIdle
    /\ ParamsIdle
    /\ PairIdle
    /\ StatsIdle
    /\ WsIdle
    /\ assets \in ConcurrentDirs
    /\ \E lists \in [Requests -> ConcurrentLists] :
          uploads = [r \in Requests |-> NewUpload(lists[r], assets)]

SpecUploads == UploadsInit /\ [][UploadNext]_vars


(***************************************************************************)
(* Two calls of call_litellm_acompletion in flight on one event loop with  *)
(* one run_context: both update its runtime.token_usage_stats dict.        *)
(* A step of a call runs from one await to the next.  pc "stream" is the   *)
(* call suspended in the transport (the open, or the next fragment).       *)
(***************************************************************************)
StatCalls == {1, 2}

\* What the aggregated response of a success may carry as actual_usage: no
\* usage, a total above the initial max_context_window, a total below it.
StatUsages ==
    { None,
      Some([prompt_tokens |-> 5, completion_tokens |-> 7]),
      Some([prompt_tokens |-> 1, completion_tokens |-> 2]) }

\* stats = run_context['runtime']['token_usage_stats'], a faulty variant that
\* works on a copy of the statistics taken when the call began and stores
\* the copy back.
SharedStatsCopiedAtEntry(c) == InitialStats

\* stats = run_context['runtime']['token_usage_stats']: the shared object as
\* it is at that moment.
SharedStats(c) == token_usage_stats

\* The retry clause after its notifications: exhaustion, or the backoff.
StatsAfterNotifications(call) ==
    IF call.attempt >= call.max_retries
    THEN [call EXCEPT !.pc = "done", !.outcome = "error"]
    ELSE [call EXCEPT !.pc = "backoff"]

StatsInit ==
    /\ CallIdle
    /\ EstimatorIdle
    /\ ParamsIdle
    /\ PairIdle
    /\ ServerIdle
    /\ token_usage_stats = InitialStats
    /\ \E sink \in {None, Some("sink")} :
       \E retries \in [StatCalls -> 0..MaxStatRetries] :
          stat_calls = [c \in StatCalls |->
                           [events |-> sink,
                            max_retries |-> retries[c],
                            pc |-> "stream",
                            attempt |-> 0,
                            usage |-> None,
                            failures |-> 0,
                            outcome |-> "pending"]]

\* The stream ends with a response that is returned: the statistics update
\* of the success branch, up to the next await (the broadcast of the
\* statistics, else the stream-ended notification) or to the return.
StatsStreamSucceeds(c) ==
    /\ stat_calls[c].pc = "stream"
    /\ \E usage \in StatUsages :
          /\ token_usage_stats' =
                IF usage /= None THEN RecordSuccess(SharedStats(c), Val(usage))
                ELSE token_usage_stats
          /\ stat_calls' =
                [stat_calls EXCEPT
                    ![c].usage = usage,
                    ![c].pc = IF stat_calls[c].events = None THEN "done"
                              ELSE IF usage /= None THEN "send_usage" ELSE "emit_ended",
                    ![c].outcome = IF stat_calls[c].events = None THEN "success" ELSE @]
    /\ UNCHANGED <<call_vars, est_vars, params_vars, pair_vars, upload_vars, ws_vars>>

\* events.send_json of the success branch returns.
StatsUsageSent(c) ==
    /\ stat_calls[c].pc = "send_usage"
    /\ stat_calls' = [stat_calls EXCEPT ![c].pc = "emit_ended"]
    /\ UNCHANGED <<call_vars, est_vars, params_vars, pair_vars, upload_vars, ws_vars,
                   token_usage_stats>>

\* emit_llm_stream_ended returns; the call returns the response.
StatsEndedEmitted(c) ==
    /\ stat_calls[c].pc = "emit_ended"
    /\ stat_calls' = [stat_calls EXCEPT ![c].pc = "done", ![c].outcome = "success"]
    /\ UNCHANGED <<call_vars, est_vars, params_vars, pair_vars, upload_vars, ws_vars,
                   token_usage_stats>>

\* The attempt ends with a retryable failure: the failure counting of the
\* retry clause, up to the next await or, without a sink, to the backoff
\* sleep or the error result.
StatsAttemptFails(c) ==
    /\ stat_calls[c].pc = "stream"
    /\ token_usage_stats' = RecordFailure(SharedStats(c))
    /\ LET counted == [stat_calls[c] EXCEPT !.failures = @ + 1]
       IN  stat_calls' =
              [stat_calls EXCEPT ![c] =
                  IF counted.events = None THEN StatsAfterNotifications(counted)
                  ELSE [counted EXCEPT !.pc = "send_failed"]]
    /\ UNCHANGED <<call_vars, est_vars, params_vars, pair_vars, upload_vars, ws_vars>>

\* events.send_json of the retry clause returns.
StatsFailureSent(c) ==
    /\ stat_calls[c].pc = "send_failed"
    /\ stat_calls' = [stat_calls EXCEPT ![c].pc = "emit_failed"]
    /\ UNCHANGED <<call_vars, est_vars, params_vars, pair_vars, upload_vars, ws_vars,
                   token_usage_stats>>

\* emit_llm_stream_failed of the retry clause returns.
StatsFailedEmitted(c) ==
    /\ stat_calls[c].pc = "emit_failed"
    /\ stat_calls' = [stat_calls EXCEPT ![c] = StatsAfterNotifications(stat_calls[c])]
    /\ UNCHANGED <<call_vars, est_vars, params_vars, pair_vars, upload_vars, ws_vars,
                   token_usage_stats>>

\* The backoff sleep returns; the next attempt runs to the transport.
StatsBackoffDone(c) ==
    /\ stat_calls[c].pc = "backoff"
    /\ stat_calls' = [stat_calls EXCEPT ![c].pc = "stream", ![c].attempt = @ + 1]
    /\ UNCHANGED <<call_vars, est_vars, params_vars, pair_vars, upload_vars, ws_vars,
                   token_usage_stats>>

\* The attempt ends with an unrecoverable or unexpected failure: an error
\* result, and no statistics.
StatsAttemptEndsCall(c) ==
    /\ stat_calls[c].pc = "stream"
    /\ stat_calls' = [stat_calls EXCEPT ![c].pc = "done", ![c].outcome = "error"]
    /\ UNCHANGED <<call_vars, est_vars, params_vars, pair_vars, upload_vars, ws_vars,
                   token_usage_stats>>

\* The task of a call is cancelled while it is suspended.
StatsCancel(c) ==
    /\ stat_calls[c].pc /= "done"
    /\ stat_calls' = [stat_calls EXCEPT ![c].pc = "done", ![c].outcome = "cancelled"]
    /\ UNCHANGED <<call_vars, est_vars, params_vars, pair_vars, upload_vars, ws_vars,
                   token_usage_stats>>

StatsNext ==
    \E c \in StatCalls :
        \/ StatsStreamSucceeds(c)
        \/ StatsUsageSent(c)
        \/ StatsEndedEmitted(c)
        \/ StatsAttemptFails(c)
        \/ StatsFailureSent(c)
        \/ StatsFailedEmitted(c)
        \/ StatsBackoffDone(c)
        \/ StatsAttemptEndsCall(c)
        \/ StatsCancel(c)

SpecStats == StatsInit /\ [][StatsNext]_vars


(***************************************************************************)
(* websocket_endpoint of api/server.py: the admission of a connection by   *)
(* its session id.  pending_websocket_sessions holds the ids that POST     *)
(* /session issued and no connection has used yet.  A step of a handler    *)
(* runs from one await to the next.                                        *)
(***************************************************************************)
WS_1008_POLICY_VIOLATION == 1008

SessionIds == {"s1", "s2"}

Sockets == 1..MaxSockets

\* A connection attempt that the server has not handled yet.
NewSocket(session_id) == [session_id |-> session_id, pc |-> "connecting", close_code |-> None]

\* The check of the session id and `del pending_websocket_sessions[...]`, a
\* faulty variant that leaves the id in the registry until the connection
\* ends.
AdmitKeepsPending(pending, session_id) ==
    IF session_id \notin pending
    THEN [admitted |-> FALSE, pending |-> pending]
    ELSE [admitted |-> TRUE, pending |-> pending]

\* `if session_id not in pending_websocket_sessions:` and, when it is,
\* `del pending_websocket_sessions[session_id]`: no await lies between them.
Admit(pending, session_id) ==
    IF session_id \notin pending
    THEN [admitted |-> FALSE, pending |-> pending]
    ELSE [admitted |-> TRUE, pending |-> pending \ {session_id}]

WsInit ==
    /\ CallIdle
    /\ EstimatorIdle
    /\ ParamsIdle
    /\ PairIdle
    /\ StatsIdle
    /\ UploadIdle
    /\ pending_websocket_sessions \in SUBSET SessionIds
    /\ sockets \in [Sockets -> {NewSocket(s) : s \in SessionIds}]

\* The handler from its first line to its first await: websocket.close for
\* an id that is not pending, websocket.accept otherwise.
WsConnect(w) ==
    /\ sockets[w].pc = "connecting"
    /\ LET a == Admit(pending_websocket_sessions, sockets[w].session_id)
       IN  /\ pending_websocket_sessions' = a.pending
           /\ sockets' = [sockets EXCEPT ![w].pc = IF a.admitted THEN "accepting" ELSE "closing"]
    /\ UNCHANGED <<call_vars, est_vars, params_vars, pair_vars, upload_vars, stats_vars>>

\* websocket.close(code=1008) returns; the handler returns.
WsClosed(w) ==
    /\ sockets[w].pc = "closing"
    /\ sockets' = [sockets EXCEPT ![w].pc = "rejected",
                                  ![w].close_code = Some(WS_1008_POLICY_VIOLATION)]
    /\ UNCHANGED <<call_vars, est_vars, params_vars, pair_vars, upload_vars, stats_vars,
                   pending_websocket_sessions>>

\* websocket.accept() returns: the connection is established and the handler
\* waits for messages.
WsAccepted(w) ==
    /\ sockets[w].pc = "accepting"
    /\ sockets' = [sockets EXCEPT ![w].pc = "accepted"]
    /\ UNCHANGED <<call_vars, est_vars, params_vars, pair_vars, upload_vars, stats_vars,
                   pending_websocket_sessions>>

\* websocket.accept() raises (the client went away): the finally block runs
\* and the exception leaves the handler.
WsAcceptRaises(w) ==
    /\ sockets[w].pc = "accepting"
    /\ sockets' = [sockets EXCEPT ![w].pc = "failed"]
    /\ UNCHANGED <<call_vars, est_vars, params_vars, pair_vars, upload_vars, stats_vars,
                   pending_websocket_sessions>>

\* The client disconnects: the message loop breaks and the finally block
\* runs; the session id is not put back.
WsDisconnected(w) ==
    /\ sockets[w].pc = "accepted"
    /\ sockets' = [sockets EXCEPT ![w].pc = "finished"]
    /\ UNCHANGED <<call_vars, est_vars, params_vars, pair_vars, upload_vars, stats_vars,
                   pending_websocket_sessions>>

WsNext ==
    \E w \in Sockets :
        \/ WsConnect(w)
        \/ WsClosed(w)
        \/ WsAccepted(w)
        \/ WsAcceptRaises(w)
        \/ WsDisconnected(w)

SpecWs == WsInit /\ [][WsNext]_vars


(***************************************************************************)
(* Properties of the call orchestrator (specification Spec).               *)
(***************************************************************************)
HasMarker(text) == Contains(text, TOOL_CALL_MARKER) \/ Contains(text, TOOL_CODE_MARKER)

IsErrorResult(o) == o.kind = "return" /\ "error" \in DOMAIN o.value
IsSuccess(o) == o.kind = "return" /\ "error" \notin DOMAIN o.value
IsCancellation(o) == o.kind = "raise" /\ o.type = CancelledError

RetryableClasses == NetworkErrors \cup {FunctionCallErrorException}

\* The fragments the aggregator has been fed, in receipt order.
Received == Val(response_aggregator).raw_chunks

\* A fragment carries a usage snapshot when its usage is present and can be
\* read as a mapping.
CarriesUsage(chunk) == chunk.usage /= None /\ Val(chunk.usage).convertible

\* C1: for every input and every transport behaviour the call ends by
\* returning a success result, by returning an error result, or by
\* propagating a cancellation; no other exception reaches the caller.
C1_OnlyThreeOutcomes ==
    pc = "done" => (IsSuccess(outcome) \/ IsErrorResult(outcome) \/ IsCancellation(outcome))

\* C2: with max_retries = n >= 0, a call (not cancelled) whose every attempt
\* fails with a retryable failure opens the transport exactly n + 1 times and
\* returns an error result with the error type and message of attempt n.
\* An attempt follows another only after a retryable failure, so every attempt
\* failed that way exactly when the last attempt of the ended call did.
C2_ExhaustionAfterAllAttempts ==
    ( /\ pc = "done"
      /\ app_level_max_retries >= 0
      /\ attempt_failure /= None
      /\ Val(attempt_failure).type \in RetryableClasses
      /\ Val(attempt_failure).attempt = attempt
      /\ ~IsCancellation(outcome) )
    => /\ Len(dispatched) = app_level_max_retries + 1
       /\ Val(attempt_failure).attempt = app_level_max_retries
       /\ IsErrorResult(outcome)
       /\ outcome.value.error_type = Val(attempt_failure).type
       /\ outcome.value.error.msg = Val(attempt_failure).msg
       /\ outcome.value.error.of_attempt = app_level_max_retries

\* C3: an unrecoverable failure of attempt k ends the call at once with an
\* error result: no attempt k + 1 is started (no further stream identifier,
\* no further open), no backoff wait is added to the k waits of the earlier
\* retries, and the message list is the one dispatched on attempt k.
C3_UnrecoverableEndsCall ==
    (attempt_failure /= None /\ Val(attempt_failure).type \in UnrecoverableErrors)
    => /\ pc = "done"
       /\ IsErrorResult(outcome)
       /\ outcome.value.error_type = Val(attempt_failure).type
       /\ outcome.value.error.format = "unrecoverable"
       /\ Val(attempt_failure).attempt = attempt
       /\ Len(stream_ids) = attempt + 1
       /\ Len(dispatched) = attempt + 1
       /\ Len(waits) = attempt
       /\ final_messages = dispatched[Len(dispatched)]

\* An unrecoverable failure on attempt 1 of a call with two retries allowed.
C3_Witness ==
    /\ attempt_failure /= None
    /\ Val(attempt_failure).type = "AuthenticationError"
    /\ attempt = 1
    /\ app_level_max_retries = 2
    /\ pc = "done"

\* C4: the stream identifiers of the attempts of one call are pairwise
\* distinct, and a stream_id given by the caller is the identifier of
\* attempt 0 and of no later attempt.
C4_StreamIdsDistinct ==
    /\ \A i, j \in 1..Len(stream_ids) : i /= j => stream_ids[i] /= stream_ids[j]
    /\ stream_id /= None =>
          /\ Len(stream_ids) >= 1 => stream_ids[1] = Val(stream_id)
          /\ \A i \in 2..Len(stream_ids) : stream_ids[i] /= Val(stream_id)
    /\ pc \in {"open", "stream"} => current_stream_id = Some(stream_ids[attempt + 1])

\* Three attempts of a call that was given a stream_id.
C4_Witness ==
    /\ stream_id /= None
    /\ Len(stream_ids) = 3
    /\ pc = "stream"

C6_SuccessNotEmpty ==
    /\ IsSuccess(outcome) =>
          (outcome.value.content /= <<>> \/ outcome.value.tool_calls /= <<>>)
    /\ ( /\ aggregated_response /= None
         /\ Val(aggregated_response).content = <<>>
         /\ Val(aggregated_response).tool_calls = <<>> )
       => /\ ~IsSuccess(outcome)
          /\ attempt_failure = Some(Exc(FunctionCallErrorException, EMPTY_MSG, attempt))
          /\ last_exception = attempt_failure

\* An attempt with reasoning only, ended as an empty response before a retry.
C6_Witness ==
    /\ aggregated_response /= None
    /\ Val(aggregated_response).content = <<>>
    /\ Val(aggregated_response).tool_calls = <<>>
    /\ Val(aggregated_response).reasoning /= <<>>
    /\ pc = "backoff"

\* C7: when attempt 0 ends with an empty response and max_retries >= 1, one
\* further attempt is started for that failure (unless the call is cancelled
\* during the wait), and the message list dispatched on attempt 1 is the list
\* dispatched on attempt 0 followed by an empty assistant turn and a user turn.
C7_EmptyResponseRetriesWithTwoTurns ==
    ( /\ attempt_failure = Some(Exc(FunctionCallErrorException, EMPTY_MSG, 0))
      /\ app_level_max_retries >= 1 )
    => /\ (pc = "done" /\ attempt = 0) => IsCancellation(outcome)
       /\ Len(final_messages) = Len(dispatched[1]) + 2
       /\ SubSeq(final_messages, 1, Len(dispatched[1])) = dispatched[1]
       /\ final_messages[Len(final_messages) - 1] = Msg("assistant", Str(<<>>))
       /\ final_messages[Len(final_messages)].role = "user"
       /\ Len(dispatched) >= 2 => dispatched[2] = final_messages

\* C18: a network-class retryable failure of attempt k leaves the message
\* list unchanged: until the next attempt is dispatched the list is the one
\* dispatched on attempt k, and the list dispatched on attempt k + 1 is
\* identical to it.
C18_NetworkFailureKeepsMessages ==
    (attempt_failure /= None /\ Val(attempt_failure).type \in NetworkErrors)
    => LET k == Val(attempt_failure).attempt
       IN  /\ Len(dispatched) >= k + 1
           /\ Len(dispatched) = k + 1 => final_messages = dispatched[k + 1]
           /\ Len(dispatched) >= k + 2 => dispatched[k + 2] = dispatched[k + 1]

\* A network failure on attempt 1, after the application-level failure of
\* attempt 0 made the list grow, and attempt 2 dispatched.
C18_Witness ==
    /\ attempt_failure /= None
    /\ Val(attempt_failure).type = "RateLimitError"
    /\ Val(attempt_failure).attempt = 1
    /\ Len(dispatched) = 3
    /\ Len(dispatched[2]) = Len(dispatched[1]) + 2
    /\ dispatched[3] = dispatched[2]

\* The latest failed attempt is the current one: no later attempt has begun.
CurrentAttemptFailed == attempt_failure /= None /\ Val(attempt_failure).attempt = attempt

\* C19: on an application-level failure of attempt k with a retry remaining
\* the message list grows before attempt k + 1 by an empty assistant turn
\* then a user turn when k = 0, by one user turn when k = 1, by one assistant
\* turn when k >= 2, whatever failed before; nothing is appended when attempt
\* k is the last one.
C19_CorrectiveTurnsByAttemptIndex ==
    (attempt_failure /= None /\ Val(attempt_failure).type = FunctionCallErrorException)
    => LET k == Val(attempt_failure).attempt
           base == dispatched[k + 1]
           grown == IF Len(dispatched) >= k + 2 THEN dispatched[k + 2] ELSE final_messages
           added == SubSeq(grown, Len(base) + 1, Len(grown))
       IN  /\ Len(grown) >= Len(base)
           /\ SubSeq(grown, 1, Len(base)) = base
           /\ IF k >= app_level_max_retries THEN added = <<>>
              ELSE IF k = 0
              THEN /\ Len(added) = 2
                   /\ added[1] = Msg("assistant", Str(<<>>))
                   /\ added[2].role = "user"
              ELSE IF k = 1
              THEN Len(added) = 1 /\ added[1].role = "user"
              ELSE Len(added) = 1 /\ added[1].role = "assistant"

\* C20: after a retryable failure of attempt k with a retry remaining the
\* call waits wait_seconds_on_retry * (k + 1) (base 3 by default) before
\* attempt k + 1, for network-class and application-class failures alike;
\* there is no wait after the last attempt, after a success, or after an
\* unrecoverable or unexpected failure.
C20_BackoffGrowsWithAttempt ==
    /\ \A i \in 1..Len(waits) : waits[i] = wait_seconds_on_retry * i
    /\ Len(waits) =
          IF /\ CurrentAttemptFailed
             /\ Val(attempt_failure).type \in RetryableClasses
             /\ attempt < app_level_max_retries
          THEN attempt + 1
          ELSE attempt

\* The exception classes that no except clause before `except Exception`
\* names.
IsUnexpected(type) ==
    type \notin RetryableClasses \cup UnrecoverableErrors \cup {CancelledError}

\* C21: an unexpected error raised on attempt k, while the stream is opened
\* or while fragments are consumed, ends the call at once with an error
\* result carrying that error's type: no attempt k + 1 (no further stream
\* identifier, open or wait) even when retries remain, and no exception
\* reaches the caller.
C21_UnexpectedBecomesErrorResult ==
    (attempt_failure /= None /\ IsUnexpected(Val(attempt_failure).type))
    => /\ pc = "done"
       /\ IsErrorResult(outcome)
       /\ outcome.value.error_type = Val(attempt_failure).type
       /\ outcome.value.error.format = "unexpected"
       /\ Val(attempt_failure).attempt = attempt
       /\ Len(stream_ids) = attempt + 1
       /\ Len(dispatched) <= attempt + 1
       /\ Len(waits) = attempt

\* An unexpected error while fragments are consumed on attempt 1, with a
\* retry remaining.
C21_Witness ==
    /\ attempt_failure = Some(Exc("KeyError", TRANSPORT_MSG, 1))
    /\ response_aggregator /= None
    /\ Len(Received) = 1
    /\ app_level_max_retries = 2
    /\ pc = "done"

\* The fields of a success result.
SuccessFields ==
    {"reasoning", "content", "tool_calls", "model_id_used", "actual_usage", "final_stream_id"}

\* C22: every error result (unrecoverable, unexpected, retries exhausted) has
\* every field a success result has (reasoning, content, tool_calls,
\* model_id_used, actual_usage, final_stream_id), each of them null, next to
\* its error kind and message.  (An error dict holds tool_calls as a list;
\* it is null when it is not that list.)
C22_ErrorResultHasSuccessShape ==
    IsErrorResult(outcome) =>
        /\ SuccessFields \subseteq DOMAIN outcome.value
        /\ \A f \in SuccessFields \ {"tool_calls"} : outcome.value[f] = None
        /\ outcome.value.tool_calls /= <<>>
        /\ {"error", "error_type"} \subseteq DOMAIN outcome.value

\* C29: the caller's message sequence is never changed by the call, so that
\* after it ends (success, error or cancellation) the sequence is exactly as
\* before: same length, same messages, same role and content in each; also
\* when a system prompt is supplied and the first caller message has role
\* system, and when corrective turns were appended.
C29_CallerMessagesNeverChange == [][messages' = messages]_vars


\* The latest aggregated response has reasoning text only: no content other
\* than whitespace, no tool calls.
ReasoningOnly ==
    /\ aggregated_response /= None
    /\ Val(aggregated_response).reasoning /= <<>>
    /\ Strip(Val(aggregated_response).content) = <<>>
    /\ Val(aggregated_response).tool_calls = <<>>

\* C34: an attempt whose stream carries only reasoning text (no content other
\* than whitespace, no tool calls) is never returned as a success: it is
\* handled as an empty response, that is counted as a failed call, followed
\* by the corrective message mutation and a retry (unless the call is
\* cancelled during the wait), or by an error result when the budget is
\* exhausted.
C34_ReasoningOnlyIsEmptyResponse ==
    ReasoningOnly =>
        /\ ~IsSuccess(outcome)
        /\ attempt_failure = Some(Exc(FunctionCallErrorException, EMPTY_MSG, attempt))
        /\ run_context /= None =>
              Val(run_context).total_failed_calls = InitialStats.total_failed_calls + attempt + 1
        /\ IF attempt >= app_level_max_retries
           THEN /\ IsErrorResult(outcome)
                /\ outcome.value.error_type = FunctionCallErrorException
           ELSE \/ IsCancellation(outcome)
                \/ /\ pc = "backoff"
                   /\ final_messages = dispatched[attempt + 1] \o CorrectiveTurns(attempt)

(***************************************************************************)
(* Properties of a call with a sink and statistics (specification          *)
(* SpecSink).                                                              *)
(***************************************************************************)
CANCELLED_REASON ==
    [format |-> "Operation was cancelled by user request.", type |-> "", msg |-> ""]

IsNotification(x) == x.kind \notin {"acompletion", "sleep"}

\* The last notification the sink received, None if it received none.
RECURSIVE LastNotification(_)
LastNotification(entries) ==
    IF entries = <<>> THEN None
    ELSE IF IsNotification(entries[Len(entries)]) THEN Some(entries[Len(entries)])
    ELSE LastNotification(SubSeq(entries, 1, Len(entries) - 1))

\* C12: a cancellation delivered while the call is suspended (opening the
\* stream, awaiting a fragment, in the backoff sleep) propagates to the
\* caller, never starts a further attempt and never becomes an error result;
\* with a sink and both ids, the last notification before it propagates is a
\* stream-failed notification of the attempt's stream describing the
\* cancellation.
C12_CancellationNotifiedThenPropagated ==
    /\ (attempt_failure /= None /\ Val(attempt_failure).type = CancelledError)
       => IsCancellation(outcome)
    /\ IsCancellation(outcome) =>
          /\ pc = "done"
          /\ HasSinkIds =>
                LastNotification(log)
                    = Some(StreamFailed(Val(current_stream_id), CANCELLED_REASON))

\* The statistics object the call was given, before the call.
StatsBefore == InitialStats

\* C13 (as stated): whenever the call returns a success result and a
\* statistics object was supplied, total_successful_calls has grown by
\* exactly 1 and the token totals by the counts of the successful attempt's
\* usage.
C13_SuccessAlwaysCounted ==
    (IsSuccess(outcome) /\ run_context /= None)
    => /\ Val(run_context).total_successful_calls = StatsBefore.total_successful_calls + 1
       /\ outcome.value.actual_usage /= None =>
             /\ Val(run_context).total_prompt_tokens =
                   StatsBefore.total_prompt_tokens
                   + Val(outcome.value.actual_usage).prompt_tokens
             /\ Val(run_context).total_completion_tokens =
                   StatsBefore.total_completion_tokens
                   + Val(outcome.value.actual_usage).completion_tokens

\* C13 (amended): whenever the call returns a success result that carries a
\* usage (a fragment of the successful attempt carried a snapshot) and a
\* statistics object was supplied, total_successful_calls has grown by exactly
\* 1 and the token totals by the prompt and completion counts of that usage;
\* a success without usage does not count as a successful call.
C13_SuccessWithUsageCounted ==
    (IsSuccess(outcome) /\ run_context /= None)
    => IF outcome.value.actual_usage /= None
       THEN /\ Val(run_context).total_successful_calls
                  = StatsBefore.total_successful_calls + 1
            /\ Val(run_context).total_prompt_tokens =
                  StatsBefore.total_prompt_tokens
                  + Val(outcome.value.actual_usage).prompt_tokens
            /\ Val(run_context).total_completion_tokens =
                  StatsBefore.total_completion_tokens
                  + Val(outcome.value.actual_usage).completion_tokens
       ELSE Val(run_context).total_successful_calls = StatsBefore.total_successful_calls

\* A success with usage on attempt 1, after a failed attempt, with statistics.
C13_Witness ==
    /\ IsSuccess(outcome)
    /\ attempt = 1
    /\ run_context /= None
    /\ outcome.value.actual_usage = Some(UsageDict(U1))
    /\ Val(run_context).total_prompt_tokens = StatsBefore.total_prompt_tokens + 5

\* C14: a call that succeeds on attempt 0 with a stream in which no fragment
\* carries a usage snapshot leaves every counter of the statistics (prompt
\* tokens, completion tokens, successful calls, failed calls, max context
\* window) as it was before the call.
C14_NoUsageLeavesStatistics ==
    ( /\ IsSuccess(outcome)
      /\ attempt = 0
      /\ \A k \in 1..Len(Received) : ~CarriesUsage(Received[k]) )
    => (run_context /= None => Val(run_context) = StatsBefore)

\* A success on attempt 0 of two fragments without usage, with statistics.
C14_Witness ==
    /\ IsSuccess(outcome)
    /\ attempt = 0
    /\ run_context = Some(StatsBefore)
    /\ Len(Received) = 2
    /\ \A k \in 1..Len(Received) : ~CarriesUsage(Received[k])

\* C15: with a statistics object, total_failed_calls grows by exactly 1 for
\* every attempt that ends in a retryable failure (network or application
\* class), the attempt that exhausts the budget and the failed attempts of a
\* call that later succeeds included.  An attempt follows another only after
\* a retryable failure, so the attempts that ended that way are the `attempt`
\* earlier ones, and the current one if it has failed that way.
C15_FailedCallsCounted ==
    run_context /= None =>
        Val(run_context).total_failed_calls =
            StatsBefore.total_failed_calls + attempt
            + (IF CurrentAttemptFailed /\ Val(attempt_failure).type \in RetryableClasses
               THEN 1 ELSE 0)

\* A failed attempt counted in a call that then succeeded.
C15_Witness ==
    /\ IsSuccess(outcome)
    /\ attempt = 1
    /\ run_context /= None
    /\ Val(run_context).total_failed_calls = StatsBefore.total_failed_calls + 1

HasStreamId(x) == "stream_id" \in DOMAIN x

IsTerminal(x) == x.kind \in {"llm_stream_ended", "llm_stream_failed"}

\* The stream identifiers of the attempts that have ended.
EndedStreams ==
    { stream_ids[k] : k \in 1..(IF pc \in {"backoff", "done"}
                                THEN Len(stream_ids) ELSE Len(stream_ids) - 1) }

\* C16: in the sink's log, for every stream identifier, a stream-started
\* notification comes before every chunk, stream-ended and stream-failed
\* notification with that identifier; exactly one of stream-ended or
\* stream-failed is emitted for it (once its attempt has ended); and no
\* notification with that identifier follows the terminal one.  This for
\* every combination of agent id and run id, and for attempts that fail
\* before the transport is opened.
C16_StartedFirstOneTerminalLast ==
    /\ \A i \in 1..Len(log) :
          (HasStreamId(log[i]) /\ log[i].kind /= "llm_stream_started")
          => \E j \in 1..(i - 1) : log[j] = StreamStarted(log[i].stream_id)
    /\ \A i \in 1..Len(log) :
          (HasStreamId(log[i]) /\ IsTerminal(log[i]))
          => \A j \in (i + 1)..Len(log) :
                HasStreamId(log[j]) => log[j].stream_id /= log[i].stream_id
    /\ \A i \in 1..Len(log) :
          (HasStreamId(log[i]) /\ log[i].stream_id \in EndedStreams)
          => \E j \in 1..Len(log) :
                /\ HasStreamId(log[j]) /\ IsTerminal(log[j])
                /\ log[j].stream_id = log[i].stream_id

\* The attempt a stream identifier belongs to (0-based).
AttemptOfStream(sid) == (CHOOSE k \in 1..Len(stream_ids) : stream_ids[k] = sid) - 1

\* The attempt an entry of the log belongs to: by its stream identifier; for
\* a transport open by its attempt; for a statistics broadcast by the failed
\* calls it reports (the failures of the earlier attempts, and its own if it
\* is the broadcast of a failure); a sleep follows the attempt whose number
\* is the number of sleeps before it.
EntryAttempt(i) ==
    LET x == log[i]
    IN  IF HasStreamId(x) THEN AttemptOfStream(x.stream_id)
        ELSE IF x.kind = "acompletion" THEN x.attempt
        ELSE IF x.kind = "token_usage_update"
        THEN x.data.total_failed_calls - StatsBefore.total_failed_calls
             - (IF x.data.total_successful_calls = StatsBefore.total_successful_calls
                THEN 1 ELSE 0)
        ELSE Cardinality({h \in 1..(i - 1) : log[h].kind = "sleep"})

\* C17: within one call every notification of attempt N (started, request
\* parameters, chunks, statistics, terminal) is emitted before the first
\* notification of attempt N + 1 and before attempt N + 1 opens the
\* transport, and the backoff wait lies between the last notification of N
\* and the start of N + 1: along the log the attempt of an entry never
\* decreases, and it increases after a sleep.
C17_AttemptsDoNotInterleave ==
    LET att == [i \in 1..Len(log) |-> EntryAttempt(i)]
    IN  \A p \in 1..(Len(log) - 1) :
            /\ att[p] <= att[p + 1]
            /\ log[p].kind = "sleep" => att[p] < att[p + 1]

\* Two attempts with a sink, both ids and statistics: chunks and a failure in
\* attempt 0, the wait, then attempt 1 ended with a success.
C17_Witness ==
    /\ HasSinkIds
    /\ run_context /= None
    /\ IsSuccess(outcome)
    /\ Len(stream_ids) = 2
    /\ \E i, j, k \in 1..Len(log) :
          /\ i < j /\ j < k
          /\ log[i].kind = "llm_chunk" /\ log[i].stream_id = stream_ids[1]
          /\ log[j].kind = "sleep"
          /\ log[k] = StreamEnded(stream_ids[2])


\* The fragments of a stream that carry content.
ContentFragments(chunks) ==
    SelectSeq(chunks, LAMBDA c : c.has_choices /\ c.content /= None)

\* The concatenated content of a sequence of fragments.
RECURSIVE ContentOf(_)
ContentOf(chunks) ==
    IF chunks = <<>> THEN <<>>
    ELSE (IF Head(chunks).has_choices /\ Head(chunks).content /= None
          THEN Val(Head(chunks).content) ELSE <<>>) \o ContentOf(Tail(chunks))

\* The texts of the content notifications emitted for a stream.
ContentNotified(sid) ==
    LET sent == SelectSeq(log, LAMBDA x : /\ x.kind = "llm_chunk"
                                          /\ x.stream_id = sid
                                          /\ x.chunk_type = "content")
    IN  [i \in 1..Len(sent) |-> sent[i].content]

\* C26: an attempt is aborted with the retryable in-band-marker failure at the
\* first fragment after which the cumulative content holds "<tool_call>" or
\* "<tool_code>", also when the marker arrives split over fragments: the
\* fragment that completed the marker is the last one consumed from that
\* stream, and no content notification is emitted for it (those of the earlier
\* content fragments were).
C26_AbortAtFirstMarkerFragment ==
    response_aggregator /= None =>
        LET agg == Val(response_aggregator)
            chunks == agg.raw_chunks
            n == Len(chunks)
            frags == ContentFragments(chunks)
            notified == IF HasMarker(agg.full_content)
                        THEN SubSeq(frags, 1, Len(frags) - 1) ELSE frags
        IN  /\ agg.full_content = ContentOf(chunks)
            /\ HasMarker(agg.full_content) =>
                  /\ ~HasMarker(ContentOf(SubSeq(chunks, 1, n - 1)))
                  /\ chunks[n].content /= None
                  /\ attempt_failure = Some(Exc(FunctionCallErrorException, MARKER_MSG, attempt))
                  /\ pc \in {"backoff", "done"}
                  /\ ~IsSuccess(outcome)
                  /\ (attempt < app_level_max_retries /\ ~IsCancellation(outcome))
                        => pc = "backoff"
            /\ events /= None =>
                  ContentNotified(agg.stream_id)
                      = [i \in 1..Len(notified) |-> Val(notified[i].content)]

\* A marker split over two fragments aborted the attempt: the first half was
\* notified, the half that completed it was not, and a retry follows.
C26_Witness ==
    /\ events /= None
    /\ pc = "backoff"
    /\ response_aggregator /= None
    /\ Val(response_aggregator).raw_chunks
          = <<ContentChunk(<<"<tool_">>), ContentChunk(<<"code>">>)>>
    /\ ContentNotified(Val(response_aggregator).stream_id) = << <<"<tool_">> >>

(***************************************************************************)
(* Properties of estimate_prompt_tokens (specification SpecEst).           *)
(***************************************************************************)
BothSupplied == est_args.text /= None /\ est_args.messages /= None

\* C23: estimate_prompt_tokens signals an invalid-argument error whenever both
\* text and messages are supplied, for every combination of model name
\* (present or empty) and tokenizer-model override (present or absent); it
\* never returns a count for such a call.
C23_BothSuppliedIsInvalidArgument ==
    (est_result /= None /\ BothSupplied) => est_result = Raised("ValueError")

(***************************************************************************)
(* Properties of the transport parameters (specification SpecParams).      *)
(***************************************************************************)
\* C28: the parameter set passed to the transport on an attempt holds none of
\* the keys max_retries, wait_seconds_on_retry, parent_agent_id, stream_id,
\* whether they came from llm_config or from the extra keyword arguments; it
\* always holds the messages of the attempt and stream = true.
C28_InternalKeysNeverDispatched ==
    (params_for_litellm /= None /\ params_for_litellm.kind = "return") =>
        LET p == params_for_litellm.value
        IN  /\ DOMAIN p \cap {"max_retries", "wait_seconds_on_retry",
                              "parent_agent_id", "stream_id"} = {}
            /\ {"messages", "stream"} \subseteq DOMAIN p
            /\ p["messages"] = Some(params_args.final_messages)
            /\ p["stream"] = Some(TRUE)

\* Parameters were built from a configuration that holds all four internal
\* keys and its own messages and stream entries, with keyword arguments that
\* hold internal keys too.
C28_Witness ==
    /\ params_for_litellm /= None
    /\ params_for_litellm.kind = "return"
    /\ {"max_retries", "wait_seconds_on_retry", "parent_agent_id", "stream_id",
         "messages", "stream"} \subseteq DOMAIN params_args.llm_config
    /\ {"max_retries", "parent_agent_id"} \subseteq DOMAIN params_args.kwargs
    /\ "model" \in DOMAIN params_for_litellm.value

(***************************************************************************)
(* Properties of concurrent calls (specification SpecPair).                *)
(***************************************************************************)
\* C30: when two calls are in flight on the same caller message list with
\* different system prompts, then under every interleaving at the awaits each
\* call dispatches to the transport, on each of its attempts, a message list
\* whose system message carries that call's own system prompt.
C30_OwnSystemPromptDispatched ==
    \A c \in Calls :
        \A k \in 1..Len(calls[c].dispatched) :
            calls[c].dispatched[k][1] = Msg("system", Str(PairSystemPrompt(c)))

(***************************************************************************)
(* Properties of the upload of project files (specification SpecUpload).   *)
(***************************************************************************)
\* The extension of the k-th file of a request, as the handler computes it.
ExtensionOf(u, k) == Lower(SplitExt(Basename(u.files[k].filename)))

\* The request was answered with status 400 and the detail that the type of
\* the k-th file is not allowed, and no file of that name is in the assets
\* directory.
RejectedAsNotAllowed(u, k) ==
    /\ u.response.status = 400
    /\ u.response.detail = NotAllowedDetail(ExtensionOf(u, k))
    /\ ~Exists(assets, Basename(u.files[k].filename))

C25_PdfUploadAccepted ==
    \A r \in DOMAIN uploads :
        ( /\ uploads[r].pc = "done"
          /\ uploads[r].assets_before = {}
          /\ Len(uploads[r].files) = 1
          /\ uploads[r].files[1].filename = <<"example", ".", "pdf">>
          /\ uploads[r].files[1].size <= MAX_FILE_SIZE_BYTES
          /\ ~uploads[r].write_failed )
            => /\ uploads[r].response.status = 200
               /\ \E e \in 1..Len(uploads[r].response.uploaded) :
                     uploads[r].response.uploaded[e].name = <<"example", ".", "pdf">>

(***************************************************************************)
(* Properties of the aggregator (specification SpecAgg).                   *)
(***************************************************************************)
\* The index of every tool-call delta received, in receipt order.
RECURSIVE SeenIndices(_)
SeenIndices(chunks) ==
    IF chunks = <<>> THEN <<>>
    ELSE LET last == chunks[Len(chunks)]
         IN  SeenIndices(SubSeq(chunks, 1, Len(chunks) - 1))
             \o (IF last.has_choices
                 THEN [k \in 1..Len(last.tool_calls) |-> TcIndex(last.tool_calls[k])]
                 ELSE <<>>)

\* seq without the repetitions of an element after its first occurrence.
RECURSIVE FirstOccurrences(_)
FirstOccurrences(seq) ==
    IF seq = <<>> THEN <<>>
    ELSE LET init == SubSeq(seq, 1, Len(seq) - 1)
             x == seq[Len(seq)]
         IN  IF \E k \in 1..Len(init) : init[k] = x
             THEN FirstOccurrences(init)
             ELSE Append(FirstOccurrences(init), x)

\* The place of the first occurrence of index i in seen.
FirstSeenAt(seen, i) ==
    CHOOSE k \in 1..Len(seen) : seen[k] = i /\ \A h \in 1..(k - 1) : seen[h] /= i

ResponseIndices ==
    [k \in 1..Len(Val(aggregated_response).tool_calls) |->
        Val(aggregated_response).tool_calls[k].index]

C9_FirstSeenOrderPreserved ==
    aggregated_response /= None =>
        LET idx == ResponseIndices
            seen == SeenIndices(Received)
            at == [k \in 1..Len(idx) |-> FirstSeenAt(seen, idx[k])]
        IN  \A p, q \in 1..Len(idx) : at[p] < at[q] => p < q

\* Two indices first seen within one fragment, the higher index first.
C9_Witness ==
    /\ aggregated_response /= None
    /\ Len(Received) = 1
    /\ Len(ResponseIndices) = 2
    /\ ResponseIndices[1] > ResponseIndices[2]
    /\ FirstSeenAt(SeenIndices(Received), ResponseIndices[1]) = 1

\* The snapshot of the last fragment that carried one, None if none did.
RECURSIVE LastUsage(_)
LastUsage(chunks) ==
    IF chunks = <<>> THEN None
    ELSE IF CarriesUsage(chunks[Len(chunks)])
    THEN Some([prompt_tokens |-> Val(chunks[Len(chunks)].usage).prompt_tokens,
               completion_tokens |-> Val(chunks[Len(chunks)].usage).completion_tokens])
    ELSE LastUsage(SubSeq(chunks, 1, Len(chunks) - 1))

\* C10: the usage of the aggregated response is the snapshot of the last
\* fragment that carried one, a fragment without choices included, and is
\* None if no fragment carried one.
C10_UsageLastWins ==
    aggregated_response /= None =>
        Val(aggregated_response).actual_usage = LastUsage(Received)

\* A snapshot on a fragment with choices, replaced by the snapshot of a later
\* fragment without choices.
C10_Witness ==
    /\ aggregated_response /= None
    /\ Len(Received) = 2
    /\ CarriesUsage(Received[1]) /\ Received[1].has_choices
    /\ CarriesUsage(Received[2]) /\ ~Received[2].has_choices
    /\ Received[1].usage /= Received[2].usage
    /\ Val(aggregated_response).actual_usage = Some(UsageDict(Val(Received[2].usage)))

\* Every tool-call delta received, in receipt order (a fragment without
\* choices is left before its deltas are read).
RECURSIVE ReceivedDeltas(_)
ReceivedDeltas(chunks) ==
    IF chunks = <<>> THEN <<>>
    ELSE ReceivedDeltas(SubSeq(chunks, 1, Len(chunks) - 1))
         \o (IF chunks[Len(chunks)].has_choices THEN chunks[Len(chunks)].tool_calls ELSE <<>>)

\* The concatenation, in receipt order, of the argument fragments (part =
\* "arguments") or name fragments (part = "name") of the deltas of index i.
RECURSIVE ConcatFor(_, _, _)
ConcatFor(deltas, i, part) ==
    IF deltas = <<>> THEN <<>>
    ELSE LET d == deltas[Len(deltas)]
             frag == IF part = "arguments" THEN d.arguments ELSE d.name
         IN  ConcatFor(SubSeq(deltas, 1, Len(deltas) - 1), i, part)
             \o (IF TcIndex(d) = i /\ frag /= None THEN Val(frag) ELSE <<>>)

\* C11: for every tool-call index, the arguments text accumulated for that
\* index (before repair) is the concatenation, in receipt order, of the
\* argument fragments of the deltas of that index, however the deltas of other
\* indices are interleaved with them; the same holds for the function name.
C11_ArgumentsConcatenatedPerIndex ==
    response_aggregator /= None =>
        LET deltas == ReceivedDeltas(Received)
            records == Val(response_aggregator).current_tool_call_chunks
        IN  /\ \A k \in 1..Len(deltas) : PosOf(records, TcIndex(deltas[k])) /= 0
            /\ \A p \in 1..Len(records) :
                  /\ records[p].function.arguments =
                        ConcatFor(deltas, records[p].index, "arguments")
                  /\ records[p].function.name = ConcatFor(deltas, records[p].index, "name")

\* The two halves of the arguments of index 0 with a delta of another index
\* received between them.
C11_Witness ==
    /\ response_aggregator /= None
    /\ Len(Received) = 3
    /\ LET deltas == ReceivedDeltas(Received)
           records == Val(response_aggregator).current_tool_call_chunks
       IN  /\ Len(deltas) = 3
           /\ TcIndex(deltas[1]) = 0 /\ TcIndex(deltas[2]) /= 0 /\ TcIndex(deltas[3]) = 0
           /\ records[PosOf(records, 0)].function.arguments = <<"{", "a:", "1", "}">>

\* The id carried by the first delta of index i that carried one, None if
\* none did.
RECURSIVE FirstId(_, _)
FirstId(deltas, i) ==
    IF deltas = <<>> THEN None
    ELSE IF TcIndex(Head(deltas)) = i /\ Head(deltas).id /= None THEN Head(deltas).id
    ELSE FirstId(Tail(deltas), i)

\* C27: for every tool-call index the call id of the finalized tool call is
\* the id carried by the first fragment of that index that carried a
\* non-empty id; ids carried by later fragments of the index do not change it.
C27_FirstIdKept ==
    aggregated_response /= None =>
        \A p \in 1..Len(Val(aggregated_response).tool_calls) :
            LET call == Val(aggregated_response).tool_calls[p]
            IN  call.id = FirstId(ReceivedDeltas(Received), call.index)


(***************************************************************************)
(* Properties of the attempts of one call (specification Spec).            *)
(***************************************************************************)
\* The concatenated reasoning of a sequence of fragments.
RECURSIVE ReasoningOf(_)
ReasoningOf(chunks) ==
    IF chunks = <<>> THEN <<>>
    ELSE (IF Head(chunks).has_choices /\ Head(chunks).reasoning_content /= None
          THEN Val(Head(chunks).reasoning_content) ELSE <<>>) \o ReasoningOf(Tail(chunks))

\* The model id of the first fragment with choices that carried one.
RECURSIVE FirstModel(_)
FirstModel(chunks) ==
    IF chunks = <<>> THEN None
    ELSE IF Head(chunks).has_choices /\ Head(chunks).model /= None THEN Head(chunks).model
    ELSE FirstModel(Tail(chunks))

\* resp is what the fragments chunks, and nothing else, aggregate to.
BuiltOnlyFrom(resp, chunks) ==
    LET deltas == ReceivedDeltas(chunks)
    IN  /\ resp.content = ContentOf(chunks)
        /\ resp.reasoning = ReasoningOf(chunks)
        /\ resp.model_id_used = FirstModel(chunks)
        /\ resp.actual_usage = LastUsage(chunks)
        /\ [k \in 1..Len(resp.tool_calls) |-> resp.tool_calls[k].index]
              = FirstOccurrences(SeenIndices(chunks))
        /\ \A k \in 1..Len(resp.tool_calls) :
              /\ resp.tool_calls[k].function.name
                    = ConcatFor(deltas, resp.tool_calls[k].index, "name")
              /\ resp.tool_calls[k].function.arguments
                    = RepairJson(ConcatFor(deltas, resp.tool_calls[k].index, "arguments"))

\* C32: the aggregator of attempt k starts empty under the stream id of
\* attempt k and is fed only the fragments of the stream of attempt k, and a
\* success result of attempt k is built from those fragments alone (content,
\* reasoning, tool calls, model id and usage hold nothing of the attempts
\* 0..k-1) and carries the stream id of attempt k as final_stream_id.
C32_SuccessBuiltFromOwnAttempt ==
    [][/\ (pc = "open" /\ pc' = "stream") =>
             LET agg == Val(response_aggregator')
             IN  /\ agg.stream_id = stream_ids[attempt + 1]
                 /\ agg.raw_chunks = <<>>
                 /\ agg.full_content = <<>>
                 /\ agg.full_reasoning_content = <<>>
                 /\ agg.current_tool_call_chunks = <<>>
                 /\ agg.model_id_used = None
                 /\ agg.actual_usage = None
       /\ (pc = "stream" /\ response_aggregator' /= response_aggregator) =>
             \E chunk \in provider.fragments :
                Val(response_aggregator').raw_chunks = Append(Received, chunk)
       /\ (pc = "stream" /\ IsSuccess(outcome')) =>
             /\ BuiltOnlyFrom(outcome'.value, Received)
             /\ Len(stream_ids) = attempt + 1
             /\ outcome'.value.final_stream_id = stream_ids[attempt + 1]
             /\ \A k \in 1..attempt : stream_ids[k] /= stream_ids[attempt + 1]
      ]_vars

\* A success of attempt 1 whose content is "x" alone, after attempt 0 had
\* accumulated a tool-call marker and failed on it in the middle of its stream.
C32_Witness ==
    /\ IsSuccess(outcome)
    /\ attempt = 1
    /\ attempt_failure = Some(Exc(FunctionCallErrorException, MARKER_MSG, 0))
    /\ outcome.value.content = <<"x">>
    /\ outcome.value.final_stream_id = stream_ids[2]

(***************************************************************************)
(* Properties of the statistics of a call (specification SpecSink).        *)
(***************************************************************************)
\* The attempt ends in this step with a failure that is not retried.
EndsWithoutRetryClause ==
    /\ attempt_failure' /= attempt_failure
    /\ attempt_failure' /= None
    /\ ~IsRetryable(Val(attempt_failure').type)

C36_MissingModelFailsInFirstIteration ==
    llm_config.model = None =>
        /\ pc \notin {"open", "stream", "backoff"}
        /\ dispatched = <<>>
        /\ \A i \in 1..Len(log) :
              log[i].kind \notin {"acompletion", "sleep", "llm_stream_started"}
        /\ pc = "done" =>
              /\ IsErrorResult(outcome)
              /\ outcome.value.error_type = "ValueError"
              /\ attempt = 0
              /\ Len(stream_ids) = 1
              /\ log = IF HasSinkIds
                       THEN <<StreamFailed(stream_ids[1],
                                 [format |-> "Unexpected error: ", type |-> "ValueError",
                                  msg |-> NO_MODEL_MSG])>>
                       ELSE <<>>

\* A call without a model that may retry once has ended and the sink, present
\* with both ids, has received the stream-failed notification.
C36_Witness ==
    /\ llm_config.model = None
    /\ app_level_max_retries = 1
    /\ HasSinkIds
    /\ pc = "done"
    /\ Len(log) = 1
    /\ log[1].kind = "llm_stream_failed"

(***************************************************************************)
(* Termination of a call (specification SpecLive).                         *)
(*                                                                         *)
(* The event loop resumes the coroutine whenever what it awaits is ready:  *)
(* the open returns or raises, a stream yields its next fragment, ends or  *)
(* raises (a stream is finite: at most MaxChunks fragments), and a backoff *)
(* sleep returns.  Cancellation is never forced.                           *)
(***************************************************************************)
Progress ==
    \/ Start
    \/ BeginAttempt
    \/ OpenReturns
    \/ OpenRaises
    \/ NextChunk
    \/ StreamRaises
    \/ StreamEnds
    \/ BackoffDone

SpecLive == Init /\ [][Next]_vars /\ WF_vars(Progress)

\* The calls of litellm.acompletion made so far.
TransportOpens == Cardinality({i \in 1..Len(log) : log[i].kind = "acompletion"})

\* The call has ended in one of the three ways: a success result, an error
\* result or a propagated cancellation.
EndedAsSpecified ==
    /\ pc = "done"
    /\ IsSuccess(outcome) \/ IsErrorResult(outcome) \/ IsCancellation(outcome)

\* The call has ended, in whatever way.
EventuallyEnds == <>(pc = "done")

\* The transport has been opened at most max_retries + 1 times.
OpensWithinBudget == TransportOpens <= app_level_max_retries + 1

\* C33: when every stream is finite and every wait completes, every call
\* eventually ends with a success result, an error result or a propagated
\* cancellation, and at every point of the execution the transport has been
\* opened at most max_retries + 1 times.
C33_EndsWithinRetryBudget ==
    /\ <>EndedAsSpecified
    /\ []OpensWithinBudget

(***************************************************************************)
(* Properties of a rejected upload (specification SpecUpload).             *)
(***************************************************************************)
\* The request ended with an HTTPException raised for one of its files: a
\* disallowed extension, a file over 5 MB, the quota, or an existing name.
RejectedForAFile(u) ==
    /\ u.pc = "done"
    /\ u.response.status \in {400, 413, 409}
    /\ u.response.detail.text \in {"File type is not allowed.", "File exceeds the 5 MB limit.",
                                   "Project storage quota exceeded.", "File already exists."}

\* C39: an upload request rejected because of one of its files leaves the
\* assets directory exactly as it was before the request: no file of the
\* request, the files listed before the rejected one included, remains
\* stored.
C39_RejectedRequestStoresNothing ==
    \A r \in DOMAIN uploads :
        RejectedForAFile(uploads[r]) => assets = uploads[r].assets_before

\* A request rejected for its first file leaves the directory as it was.
RejectedAtFirstFileStoresNothing ==
    \A r \in DOMAIN uploads :
        (RejectedForAFile(uploads[r]) /\ uploads[r].i = 1) => assets = uploads[r].assets_before

(***************************************************************************)
(* Properties of the WebSocket endpoint (specification SpecWs).            *)
(***************************************************************************)
\* The handler of the attempt passed the check of the session id.
Admitted(w) == sockets[w].pc \in {"accepting", "accepted", "failed", "finished"}

\* The handler of the attempt turned the connection away, or is doing so.
TurnedAway(w) == sockets[w].pc \in {"closing", "rejected"}

\* The attempts handled so far that presented session id s.
HandledWith(s) == {w \in DOMAIN sockets : sockets[w].session_id = s /\ sockets[w].pc /= "connecting"}

\* C37: whatever the interleaving of the connection attempts that present
\* one session id, at most one of them is admitted, and only that one can be
\* accepted; every other attempt handled is turned away and closed with the
\* policy-violation code; an id that an attempt has used is no longer
\* pending, so that every later attempt with it is turned away; an id that
\* was never pending admits no attempt.
C37_OneConnectionPerSessionId ==
    \A s \in SessionIds :
        LET admitted == {w \in HandledWith(s) : Admitted(w)}
        IN  /\ Cardinality(admitted) <= 1
            /\ \A w \in HandledWith(s) \ admitted : TurnedAway(w)
            /\ \A w \in HandledWith(s) :
                  /\ sockets[w].pc = "rejected" =>
                        sockets[w].close_code = Some(WS_1008_POLICY_VIOLATION)
                  /\ sockets[w].pc = "accepted" => w \in admitted
            /\ admitted /= {} => s \notin pending_websocket_sessions
            /\ (admitted = {} /\ HandledWith(s) /= {}) => s \notin pending_websocket_sessions

\* Three attempts with one session id: one is accepted and the two others
\* are closed as policy violations.
C37_Witness ==
    \E s \in SessionIds :
        /\ \A w \in DOMAIN sockets : sockets[w].session_id = s
        /\ Cardinality({w \in DOMAIN sockets : sockets[w].pc = "accepted"}) = 1
        /\ Cardinality({w \in DOMAIN sockets :
                           /\ sockets[w].pc = "rejected"
                           /\ sockets[w].close_code = Some(WS_1008_POLICY_VIOLATION)}) = 2

(***************************************************************************)
(* Properties of concurrent uploads (specification SpecUploads).           *)
(***************************************************************************)
\* C38: starting from an assets directory within the quota, whatever the
\* upload requests and their interleaving at the awaits, the total size of
\* the files of the directory never exceeds MAX_PROJECT_STORAGE_BYTES.
C38_QuotaNeverExceeded ==
    DirectorySize(assets) <= MAX_PROJECT_STORAGE_BYTES

(***************************************************************************)
(* Properties of calls that share their statistics (specification          *)
(* SpecStats).                                                             *)
(***************************************************************************)
\* The sum of f over the calls of S.
RECURSIVE SumOver(_, _)
SumOver(f, S) ==
    IF S = {} THEN 0
    ELSE LET c == CHOOSE x \in S : TRUE
         IN  f[c] + SumOver(f, S \ {c})

\* What call c has added to the statistics: its tokens and one successful
\* call if it got a response with usage, one failed call for each of its
\* attempts that ended with a retryable failure.
Contribution(c) ==
    LET u == stat_calls[c].usage
    IN  [prompt_tokens |-> IF u = None THEN 0 ELSE Val(u).prompt_tokens,
         completion_tokens |-> IF u = None THEN 0 ELSE Val(u).completion_tokens,
         successful_calls |-> IF u = None THEN 0 ELSE 1,
         failed_calls |-> stat_calls[c].failures]

\* The prompt+completion totals of the responses with usage, and the initial
\* max_context_window.
ContextWindows ==
    {InitialStats.max_context_window}
        \cup {Val(stat_calls[c].usage).prompt_tokens + Val(stat_calls[c].usage).completion_tokens :
                c \in {d \in DOMAIN stat_calls : stat_calls[d].usage /= None}}

\* C31: whatever the interleaving of the calls at their awaits, no update of
\* the shared statistics is lost: at every point, and so after all calls
\* have ended, each of total_prompt_tokens, total_completion_tokens,
\* total_successful_calls and total_failed_calls is its initial value plus
\* the sum of what every call has contributed, and max_context_window is the
\* maximum of its initial value and the prompt+completion total of every
\* response with usage.
C31_NoStatisticsUpdateLost ==
    LET calls_ == DOMAIN stat_calls
        by == [c \in calls_ |-> Contribution(c)]
    IN  /\ token_usage_stats.total_prompt_tokens =
              InitialStats.total_prompt_tokens
                 + SumOver([c \in calls_ |-> by[c].prompt_tokens], calls_)
        /\ token_usage_stats.total_completion_tokens =
              InitialStats.total_completion_tokens
                 + SumOver([c \in calls_ |-> by[c].completion_tokens], calls_)
        /\ token_usage_stats.total_successful_calls =
              InitialStats.total_successful_calls
                 + SumOver([c \in calls_ |-> by[c].successful_calls], calls_)
        /\ token_usage_stats.total_failed_calls =
              InitialStats.total_failed_calls
                 + SumOver([c \in calls_ |-> by[c].failed_calls], calls_)
        /\ token_usage_stats.max_context_window \in ContextWindows
        /\ \A w \in ContextWindows : w <= token_usage_stats.max_context_window

\* Both calls have ended with a response with usage after one failed attempt
\* each, the larger total above and the smaller one below the initial
\* max_context_window.
C31_Witness ==
    /\ stat_calls /= <<>>
    /\ \A c \in DOMAIN stat_calls :
          /\ stat_calls[c].pc = "done"
          /\ stat_calls[c].outcome = "success"
          /\ stat_calls[c].usage /= None
          /\ stat_calls[c].failures = 1
    /\ stat_calls[1].usage /= stat_calls[2].usage
    /\ token_usage_stats.total_successful_calls = InitialStats.total_successful_calls + 2
    /\ token_usage_stats.total_failed_calls = InitialStats.total_failed_calls + 2
    /\ token_usage_stats.max_context_window = 12
=============================================================================
